---- MODULE Spec2Model ----
(***************************************************************************)
(* A state-machine model of the RECALL core (src/recall): the dynamic      *)
(* log-entity graph, the sliding-window recurrence counter, the template   *)
(* burst detector and the dual-path retriever.                             *)
(*                                                                         *)
(* Conventions.                                                            *)
(*  - A Python str is a sequence of one-character strings, so that strip,  *)
(*    lower and whitespace collapsing are computed and not assumed.        *)
(*  - A Python float is a fixed-point number in thousandths ("milli"):     *)
(*    1.0 is 1000.  Products are truncated, as float products are rounded. *)
(*  - Optional[int] None is the value None; Optional[float] is a sequence  *)
(*    of length 0 or 1.                                                    *)
(*  - Python dicts are functions whose DOMAIN is the key set.              *)
(***************************************************************************)
EXTENDS Integers, Sequences, FiniteSets, TLC

VARIABLES
    cfg,             \* RecallConfig (frozen dataclass) of the graph/retriever
    step,            \* DynamicLogEntityGraph._step
    logs,            \* DynamicLogEntityGraph.logs: log_id -> LogNode
    entities,        \* DynamicLogEntityGraph.entities: value -> EntityNode
    log_to_entities, \* DynamicLogEntityGraph.log_to_entities: log_id -> set
    entity_to_logs,  \* DynamicLogEntityGraph.entity_to_logs: value -> deque
    log_window,      \* DynamicLogEntityGraph._log_window: deque of log_id
    last_log_id,     \* DynamicLogEntityGraph._last_log_id
    issued,          \* caller: number of log_ids handed to add_log so far
    clock,           \* caller: timestamp of the latest add_log
    last_op,         \* the graph call that produced this state: its name, its
                     \* timestamp argument, and the logs and entities it deleted
    rc_window_sec,   \* TokenRecurrenceCounter.window_sec
    rc_q,            \* TokenRecurrenceCounter._q: deque of (ts, token set)
    rc_counts,       \* TokenRecurrenceCounter._counts: token -> count
    rc_pushed,       \* caller: every push so far, as (ts, tokens_in_log)
    bd_params,       \* TemplateBurstDetector: burst_window_sec, ema_alpha, sigma
    bd_q,            \* TemplateBurstDetector._q: deque of (ts, key)
    bd_win_counts,   \* TemplateBurstDetector._win_counts: key -> count
    bd_ema,          \* TemplateBurstDetector._ema: key -> _EmaStats
    bd_out,          \* the last push_and_check call: its arguments and result
    retr,            \* the last dual_path_retrieve call: its target, the list it
                     \* returned and the scored candidates it was cut from
    pl,              \* RecallPipeline.process: whether it runs, returned or
                     \* raised, and the predictions appended so far
    call             \* the last call of a function that is driven directly:
                     \* its name, its argument and what it returned

graph_vars == <<cfg, step, logs, entities, log_to_entities, entity_to_logs,
                log_window, last_log_id, issued, clock, last_op>>

counter_vars == <<rc_window_sec, rc_q, rc_counts, rc_pushed>>

burst_vars == <<bd_params, bd_q, bd_win_counts, bd_ema, bd_out>>

vars == <<graph_vars, counter_vars, burst_vars, retr, pl, call>>

(***************************************************************************)
(* Bounds of the model.                                                    *)
(***************************************************************************)
MaxLogs == 3     \* add_log calls per run
MaxTs == 3       \* largest timestamp (time is shift-invariant in the code)

None == -1

(***************************************************************************)
(* Generic helpers: dict update/removal, min/max, fixed-point arithmetic.  *)
(***************************************************************************)
Put(f, k, v) == [x \in (DOMAIN f) \cup {k} |-> IF x = k THEN v ELSE f[x]]

Del(f, k) == [x \in (DOMAIN f) \ {k} |-> f[x]]

Max(a, b) == IF a >= b THEN a ELSE b

Min(a, b) == IF a <= b THEN a ELSE b

Range(s) == {s[i] : i \in DOMAIN s}

MulMilli(a, b) == (a * b) \div 1000

RECURSIVE PowMilli(_, _)
PowMilli(b, n) == IF n <= 0 THEN 1000 ELSE MulMilli(b, PowMilli(b, n - 1))

CeilDiv(a, b) == 0 - ((0 - a) \div b)

(***************************************************************************)
(* math.log and math.exp on fixed-point numbers.                           *)
(* NegLnMilli(t) is -ln(t/1000) in thousandths for the theta_w values the  *)
(* configurations below use.  ExpNegMilli(x) is exp(-x/1000) in            *)
(* thousandths, by the power series of exp(x) and one division.            *)
(***************************************************************************)
NegLnMilli(t) ==
    CASE t = 50 -> 2996
      [] t = 500 -> 693
      [] t = 1000 -> 0
      [] t = 2000 -> 0 - 693

RECURSIVE ExpSeries(_, _, _, _)
ExpSeries(x, term, n, acc) ==
    IF term = 0 THEN acc
    ELSE ExpSeries(x, (term * x) \div (n * 1000), n + 1, acc + term)

ExpNegMilli(x) ==
    IF x = 0 THEN 1000
    ELSE IF x < 0 THEN ExpSeries(0 - x, 1000, 1, 0)
    ELSE IF x >= 7000 THEN 0
    ELSE (1000 * 1000) \div ExpSeries(x, 1000, 1, 0)

(***************************************************************************)
(* Python str operations on character sequences.                          *)
(***************************************************************************)
IsSpace(c) == c \in {" ", "\t", "\n"}

RECURSIVE LStrip(_)
LStrip(s) == IF s # <<>> /\ IsSpace(Head(s)) THEN LStrip(Tail(s)) ELSE s

RECURSIVE RStrip(_)
RStrip(s) ==
    IF s # <<>> /\ IsSpace(s[Len(s)]) THEN RStrip(SubSeq(s, 1, Len(s) - 1)) ELSE s

Strip(s) == RStrip(LStrip(s))

(***************************************************************************)
(* text.py and trigger.severity_level.                                     *)
(***************************************************************************)
UpperChars == <<"A","B","C","D","E","F","G","H","I","J","K","L","M","N","O","P","Q","R","S","T","U","V","W","X","Y","Z">>

LowerChars == <<"a","b","c","d","e","f","g","h","i","j","k","l","m","n","o","p","q","r","s","t","u","v","w","x","y","z">>

\* The characters the model uses, in code point order.
Digits == <<"0","1","2","3","4","5","6","7","8","9">>

CodePoints ==
    <<"\t", "\n", " ", "%", "-", ".", "/">> \o Digits \o <<":", "<", ">">>
        \o UpperChars \o <<"\\", "_">> \o LowerChars

CodePoint(ch) == CHOOSE i \in DOMAIN CodePoints : CodePoints[i] = ch

LowerChar(ch) ==
    IF \E i \in DOMAIN UpperChars : UpperChars[i] = ch
    THEN LowerChars[CHOOSE i \in DOMAIN UpperChars : UpperChars[i] = ch]
    ELSE ch

Lower(s) == [i \in DOMAIN s |-> LowerChar(s[i])]

\* _WS.sub(' ', s): every maximal run of whitespace becomes one space.
RECURSIVE CollapseWs(_)
CollapseWs(s) ==
    IF s = <<>> THEN <<>>
    ELSE IF IsSpace(Head(s)) THEN <<" ">> \o CollapseWs(LStrip(s))
    ELSE <<Head(s)>> \o CollapseWs(Tail(s))

normalize_message_for_dedup(msg, case_insensitive) ==
    LET s0 == Strip(msg)
        s1 == IF case_insensitive THEN Lower(s0) ELSE s0
    IN CollapseWs(s1)

\* Python's `kw in s` on strings.
Contains(s, kw) ==
    \E i \in 1..(Len(s) - Len(kw) + 1) : SubSeq(s, i, i + Len(kw) - 1) = kw

severity_keywords_fatal ==
    { <<"f","a","t","a","l">>,
      <<"p","a","n","i","c">>,
      <<"c","r","i","t","i","c","a","l">>,
      <<"m","a","c","h","i","n","e"," ","c","h","e","c","k">> }

severity_keywords_error ==
    { <<"e","r","r","o","r">>,
      <<"e","x","c","e","p","t","i","o","n">>,
      <<"f","a","i","l">>,
      <<"f","a","i","l","u","r","e">>,
      <<"c","r","a","s","h">>,
      <<"a","b","o","r","t">>,
      <<"t","e","r","m","i","n","a","t","e","d">> }

severity_level(message) ==
    LET s == Lower(message)
    IN IF \E kw \in severity_keywords_fatal : Contains(s, kw) THEN 3
       ELSE IF \E kw \in severity_keywords_error : Contains(s, kw) THEN 2
       ELSE IF Contains(s, <<"w","a","r","n">>) \/ Contains(s, <<"w","a","r","n","i","n","g">>) THEN 1
       ELSE 0

\* Lexicographic order of strings by code point, and sorted(list(S)).
RECURSIVE StrLess(_, _)
StrLess(a, b) ==
    IF b = <<>> THEN FALSE
    ELSE IF a = <<>> THEN TRUE
    ELSE IF Head(a) # Head(b) THEN CodePoint(Head(a)) < CodePoint(Head(b))
    ELSE StrLess(Tail(a), Tail(b))

RECURSIVE SortedStrings(_)
SortedStrings(S) ==
    IF S = {} THEN <<>>
    ELSE LET m == CHOOSE x \in S : \A y \in S \ {x} : StrLess(x, y)
         IN <<m>> \o SortedStrings(S \ {m})

(***************************************************************************)
(* Character classes (str.isdigit, str.isalpha, str.isalnum, regex \w).    *)
(***************************************************************************)
DigitChars == Range(Digits)

AlphaChars == Range(UpperChars) \cup Range(LowerChars)

IsDigit(ch) == ch \in DigitChars

IsAlpha(ch) == ch \in AlphaChars

IsAlnum(ch) == IsDigit(ch) \/ IsAlpha(ch)

IsWordChar(ch) == IsAlnum(ch) \/ ch = "_"

\* _WS.split(s) on a stripped string: the maximal runs of non-whitespace.
RECURSIVE SplitWs(_, _)
SplitWs(s, cur) ==
    IF s = <<>> THEN (IF cur = <<>> THEN <<>> ELSE <<cur>>)
    ELSE IF IsSpace(Head(s))
    THEN (IF cur = <<>> THEN <<>> ELSE <<cur>>) \o SplitWs(LStrip(s), <<>>)
    ELSE SplitWs(Tail(s), Append(cur, Head(s)))

KeptPunctuation == {"/", ".", "_", "-", ":"}

\* text.py:28-31: characters that are neither alphanumeric nor kept
\* punctuation are trimmed from the end, then from the start.
RECURSIVE TrimRight(_)
TrimRight(t) ==
    IF t # <<>> /\ ~IsAlnum(t[Len(t)]) /\ t[Len(t)] \notin KeptPunctuation
    THEN TrimRight(SubSeq(t, 1, Len(t) - 1)) ELSE t

RECURSIVE TrimLeft(_)
TrimLeft(t) ==
    IF t # <<>> /\ ~IsAlnum(Head(t)) /\ Head(t) \notin KeptPunctuation
    THEN TrimLeft(Tail(t)) ELSE t

tokenize_for_entity_candidates(msg) ==
    IF msg = <<>> THEN <<>>
    ELSE LET toks == SplitWs(Strip(msg), <<>>)
             trimmed == [i \in DOMAIN toks |-> TrimLeft(TrimRight(toks[i]))]
         IN SelectSeq(trimmed, LAMBDA t : t # <<>>)

\* text.py:42-47 with case_sensitive = False.
CharType(ch) == IF IsDigit(ch) THEN 0 ELSE IF IsAlpha(ch) THEN 1 ELSE 2

token_complexity(token) ==
    IF Len(token) < 2 THEN 0
    ELSE Cardinality({i \in 2..Len(token) : CharType(token[i]) # CharType(token[i - 1])})

\* Regex \b at position i (between s[i-1] and s[i]).
WordBoundary(s, i) ==
    LET before == i > 1 /\ IsWordChar(s[i - 1])
        after == i <= Len(s) /\ IsWordChar(s[i])
    IN before # after

\* The end of the maximal run of digits that starts at i (i - 1 when s[i] is
\* not a digit), and the same for hexadecimal digits.
RECURSIVE DigitRunEnd(_, _)
DigitRunEnd(s, i) ==
    IF i <= Len(s) /\ IsDigit(s[i]) THEN DigitRunEnd(s, i + 1) ELSE i - 1

IsHexDigit(ch) == IsDigit(ch) \/ ch \in {"a", "b", "c", "d", "e", "f"}

RECURSIVE HexRunEnd(_, _)
HexRunEnd(s, i) ==
    IF i <= Len(s) /\ IsHexDigit(s[i]) THEN HexRunEnd(s, i + 1) ELSE i - 1

\* re.sub('\b0x[0-9a-f]+\b', '<HEX>', s), scanning from position i.
RECURSIVE SubHex(_, _)
SubHex(s, i) ==
    IF i > Len(s) THEN <<>>
    ELSE LET e == HexRunEnd(s, i + 2)
         IN IF /\ WordBoundary(s, i)
               /\ i + 1 <= Len(s) /\ s[i] = "0" /\ s[i + 1] = "x"
               /\ e >= i + 2
               /\ WordBoundary(s, e + 1)
            THEN <<"<", "H", "E", "X", ">">> \o SubHex(s, e + 1)
            ELSE <<s[i]>> \o SubHex(s, i + 1)

\* re.sub('\b\d+\b', '<NUM>', s), scanning from position i.
RECURSIVE SubNum(_, _)
SubNum(s, i) ==
    IF i > Len(s) THEN <<>>
    ELSE LET e == DigitRunEnd(s, i)
         IN IF WordBoundary(s, i) /\ e >= i /\ WordBoundary(s, e + 1)
            THEN <<"<", "N", "U", "M", ">">> \o SubNum(s, e + 1)
            ELSE <<s[i]>> \o SubNum(s, i + 1)

mask_for_template_key(msg) ==
    CollapseWs(SubNum(SubHex(Lower(Strip(msg)), 1), 1))

trigger_keywords ==
    { <<"f","a","t","a","l">>, <<"p","a","n","i","c">>, <<"e","x","c","e","p","t","i","o","n">>, <<"c","r","i","t","i","c","a","l">>, <<"f","a","i","l","u","r","e">>, <<"m","a","c","h","i","n","e"," ","c","h","e","c","k">> }

(***************************************************************************)
(* RecallConfig.is_blacklisted_entity (config.py:45-54).  The one default  *)
(* regex, ^::1$, is matched with search: "$" also matches before a final   *)
(* newline.                                                                *)
(***************************************************************************)
entity_blacklist_exact ==
    { <<"1","2","7",".","0",".","0",".","1">>,
      <<"0",".","0",".","0",".","0">>,
      <<"l","o","c","a","l","h","o","s","t">>,
      <<"/","t","m","p">> }

entity_blacklist_regex_search(s) ==
    s = <<":",":","1">> \/ s = <<":",":","1","\n">>

is_blacklisted_entity(ent) ==
    LET s == Strip(ent) IN
    \/ s = <<>>
    \/ s \in entity_blacklist_exact
    \/ entity_blacklist_regex_search(s)

(***************************************************************************)
(* DynamicLogEntityGraph (dynamic_graph.py).  The operations are functions *)
(* from a graph value g (the object's fields) to the graph value after the *)
(* call; c is the RecallConfig.                                            *)
(***************************************************************************)
GraphState ==
    [step |-> step, logs |-> logs, entities |-> entities,
     log_to_entities |-> log_to_entities, entity_to_logs |-> entity_to_logs,
     log_window |-> log_window, last_log_id |-> last_log_id]

EmptyGraph(s) ==
    [step |-> s, logs |-> <<>>, entities |-> <<>>, log_to_entities |-> <<>>,
     entity_to_logs |-> <<>>, log_window |-> <<>>, last_log_id |-> None]

\* _lambda: the decay rate in thousandths per second, as a fraction num/den.
Lambda(c) ==
    IF c.decay_lambda # <<>> THEN [num |-> c.decay_lambda[1], den |-> 1]
    ELSE IF c.graph_window_t_sec <= 0 \/ c.theta_w <= 0 THEN [num |-> 0, den |-> 1]
    ELSE [num |-> NegLnMilli(c.theta_w), den |-> c.graph_window_t_sec]

edge_weight(c, edge_last_ts, now_ts) ==
    LET dt == Max(0, now_ts - edge_last_ts)
        lam == Lambda(c)
    IN IF lam.num <= 0 THEN 1000 ELSE ExpNegMilli((lam.num * dt) \div lam.den)

structural_edge_weight(c, g, log_id, entity, now_ts) ==
    IF log_id \notin DOMAIN g.logs THEN 0
    ELSE edge_weight(c, g.logs[log_id].ts_sec, now_ts)

temporal_edge_weight(c, g, src_log_id, dst_log_id, now_ts) ==
    IF dst_log_id \notin DOMAIN g.logs THEN 0
    ELSE edge_weight(c, g.logs[dst_log_id].ts_sec, now_ts)

\* Mutant of activate_entity: the activity is not decayed before alpha is added.
activate_entity_no_decay(c, en, s, ts_sec) ==
    [activity |-> en.activity + c.activity_alpha, last_step |-> s, last_seen_ts |-> ts_sec]

\* _activate_entity, on an EntityNode en at graph step s.
activate_entity(c, en, s, ts_sec) ==
    LET dt_steps == Max(0, s - en.last_step)
        decayed == IF dt_steps > 0
                   THEN MulMilli(en.activity, PowMilli(c.activity_beta, dt_steps))
                   ELSE en.activity
    IN [activity |-> decayed + c.activity_alpha, last_step |-> s, last_seen_ts |-> ts_sec]

\* Mutant of add_log_ent_set: the blacklist test is forgotten.
add_log_ent_set_no_blacklist(ents) ==
    {Strip(e) : e \in {x \in ents : Strip(x) # <<>>}}

\* The entity filter of add_log (lines 85-92): strip, drop empty and blacklisted.
add_log_ent_set(ents) ==
    {Strip(e) : e \in {x \in ents : Strip(x) # <<>> /\ ~is_blacklisted_entity(Strip(x))}}

\* Mutant of add_log: the new log is put at the front of each entity's list.
add_log_prepend(c, g, log_id, ts, message, ents, severity) ==
    LET s1 == g.step + 1
        node == [log_id |-> log_id, ts_sec |-> ts, message |-> message,
                 severity |-> severity, prev_log_id |-> None, next_log_id |-> None]
        logs1 == Put(g.logs, log_id, node)
        last == g.last_log_id
        logs2 == IF last # None /\ last \in DOMAIN logs1
                 THEN [logs1 EXCEPT ![last].next_log_id = log_id,
                                    ![log_id].prev_log_id = logs1[last].log_id]
                 ELSE logs1
        ent_set == add_log_ent_set(ents)
        fresh == [activity |-> 0, last_step |-> s1, last_seen_ts |-> ts]
    IN [step |-> s1,
        logs |-> logs2,
        log_window |-> Append(g.log_window, log_id),
        last_log_id |-> log_id,
        log_to_entities |-> Put(g.log_to_entities, log_id, ent_set),
        entities |->
            [e \in (DOMAIN g.entities) \cup ent_set |->
                IF e \in ent_set
                THEN activate_entity(c, IF e \in DOMAIN g.entities
                                        THEN g.entities[e] ELSE fresh, s1, ts)
                ELSE g.entities[e]],
        entity_to_logs |->
            [e \in (DOMAIN g.entity_to_logs) \cup ent_set |->
                IF e \in ent_set
                THEN <<log_id>> \o (IF e \in DOMAIN g.entity_to_logs
                                    THEN g.entity_to_logs[e] ELSE <<>>)
                ELSE g.entity_to_logs[e]]]

add_log(c, g, log_id, ts, message, ents, severity) ==
    LET s1 == g.step + 1
        node == [log_id |-> log_id, ts_sec |-> ts, message |-> message,
                 severity |-> severity, prev_log_id |-> None, next_log_id |-> None]
        logs1 == Put(g.logs, log_id, node)
        last == g.last_log_id
        logs2 == IF last # None /\ last \in DOMAIN logs1
                 THEN [logs1 EXCEPT ![last].next_log_id = log_id,
                                    ![log_id].prev_log_id = logs1[last].log_id]
                 ELSE logs1
        ent_set == add_log_ent_set(ents)
        fresh == [activity |-> 0, last_step |-> s1, last_seen_ts |-> ts]
    IN [step |-> s1,
        logs |-> logs2,
        log_window |-> Append(g.log_window, log_id),
        last_log_id |-> log_id,
        log_to_entities |-> Put(g.log_to_entities, log_id, ent_set),
        entities |->
            [e \in (DOMAIN g.entities) \cup ent_set |->
                IF e \in ent_set
                THEN activate_entity(c, IF e \in DOMAIN g.entities
                                        THEN g.entities[e] ELSE fresh, s1, ts)
                ELSE g.entities[e]],
        entity_to_logs |->
            [e \in (DOMAIN g.entity_to_logs) \cup ent_set |->
                IF e \in ent_set
                THEN Append(IF e \in DOMAIN g.entity_to_logs
                            THEN g.entity_to_logs[e] ELSE <<>>, log_id)
                ELSE g.entity_to_logs[e]]]

\* Mutant of drop_log_refs: an entity whose deque becomes empty is kept.
drop_log_refs_keep_empty(g, lid, ents) ==
    LET e2l == g.entity_to_logs
        has(e) == e \in ents /\ e \in DOMAIN e2l /\ e2l[e] # <<>>
    IN [g EXCEPT
          !.entity_to_logs = [e \in DOMAIN e2l |->
                                 IF has(e) THEN SelectSeq(e2l[e], LAMBDA x : x # lid)
                                 ELSE e2l[e]]]

\* The per-entity body shared by _remove_log (lines 135-148) and _prune_edges
\* (lines 170-177): drop lid from the deques of the entities in ents, and delete
\* an entity whose deque becomes empty from entity_to_logs and entities.
\* An entity with no (or an empty) deque is skipped, as `if not dq: continue`.
drop_log_refs(g, lid, ents) ==
    LET e2l == g.entity_to_logs
        has(e) == e \in ents /\ e \in DOMAIN e2l /\ e2l[e] # <<>>
        rest(e) == SelectSeq(e2l[e], LAMBDA x : x # lid)
        gone == {e \in DOMAIN e2l : has(e) /\ rest(e) = <<>>}
    IN [g EXCEPT
          !.entity_to_logs = [e \in (DOMAIN e2l) \ gone |->
                                 IF has(e) THEN rest(e) ELSE e2l[e]],
          !.entities = [e \in (DOMAIN g.entities) \ gone |-> g.entities[e]]]

\* Mutant of remove_log: the successor's prev link is left as it was.
remove_log_keep_prev(g, log_id) ==
    LET present == log_id \in DOMAIN g.logs
        ln == g.logs[log_id]
        ents == IF log_id \in DOMAIN g.log_to_entities
                THEN g.log_to_entities[log_id] ELSE {}
        logs1 == Del(g.logs, log_id)
        logs2 == IF present /\ ln.prev_log_id # None /\ ln.prev_log_id \in DOMAIN logs1
                 THEN [logs1 EXCEPT ![ln.prev_log_id].next_log_id = ln.next_log_id]
                 ELSE logs1
        last1 == IF present /\ g.last_log_id = log_id
                 THEN ln.prev_log_id ELSE g.last_log_id
        g1 == [g EXCEPT !.logs = logs2,
                        !.log_to_entities = Del(g.log_to_entities, log_id),
                        !.last_log_id = last1]
    IN drop_log_refs(g1, log_id, ents)

remove_log(g, log_id) ==
    LET present == log_id \in DOMAIN g.logs
        ln == g.logs[log_id]
        ents == IF log_id \in DOMAIN g.log_to_entities
                THEN g.log_to_entities[log_id] ELSE {}
        logs1 == Del(g.logs, log_id)
        logs2 == IF present /\ ln.prev_log_id # None /\ ln.prev_log_id \in DOMAIN logs1
                 THEN [logs1 EXCEPT ![ln.prev_log_id].next_log_id = ln.next_log_id]
                 ELSE logs1
        logs3 == IF present /\ ln.next_log_id # None /\ ln.next_log_id \in DOMAIN logs2
                 THEN [logs2 EXCEPT ![ln.next_log_id].prev_log_id = ln.prev_log_id]
                 ELSE logs2
        last1 == IF present /\ g.last_log_id = log_id
                 THEN ln.prev_log_id ELSE g.last_log_id
        g1 == [g EXCEPT !.logs = logs3,
                        !.log_to_entities = Del(g.log_to_entities, log_id),
                        !.last_log_id = last1]
    IN drop_log_refs(g1, log_id, ents)

\* Mutant of evict_loop: 'if' instead of 'while', one log evicted per call.
evict_loop_once(g, cutoff) ==
    IF /\ g.log_window # <<>>
       /\ Head(g.log_window) \in DOMAIN g.logs
       /\ g.logs[Head(g.log_window)].ts_sec < cutoff
    THEN remove_log([g EXCEPT !.log_window = Tail(g.log_window)], Head(g.log_window))
    ELSE g

RECURSIVE evict_loop(_, _)
evict_loop(g, cutoff) ==
    IF /\ g.log_window # <<>>
       /\ Head(g.log_window) \in DOMAIN g.logs
       /\ g.logs[Head(g.log_window)].ts_sec < cutoff
    THEN evict_loop(remove_log([g EXCEPT !.log_window = Tail(g.log_window)],
                               Head(g.log_window)), cutoff)
    ELSE g

\* Mutant of evict_logs: a log exactly at the cutoff is evicted too.
evict_logs_inclusive(c, g, now_ts) ==
    IF c.graph_window_t_sec <= 0 THEN g
    ELSE evict_loop(g, now_ts - c.graph_window_t_sec + 1)

\* Mutant of evict_logs: the cutoff is one second too early.
evict_logs_late(c, g, now_ts) ==
    IF c.graph_window_t_sec <= 0 THEN g
    ELSE evict_loop(g, now_ts - c.graph_window_t_sec - 1)

\* Mutant of evict_logs: the window is taken two seconds shorter.
evict_logs_short_window(c, g, now_ts) ==
    IF c.graph_window_t_sec <= 0 THEN g
    ELSE evict_loop(g, now_ts - c.graph_window_t_sec + 2)

evict_logs(c, g, now_ts) ==
    IF c.graph_window_t_sec <= 0 THEN g
    ELSE evict_loop(g, now_ts - c.graph_window_t_sec)

\* Mutant of prune_incidence: a log whose incidences are wiped is removed.
prune_incidence_removing(g, lid, cutoff_ts) ==
    IF lid \notin DOMAIN g.logs THEN g
    ELSE IF g.logs[lid].ts_sec >= cutoff_ts THEN g
    ELSE IF lid \notin DOMAIN g.log_to_entities \/ g.log_to_entities[lid] = {} THEN g
    ELSE remove_log([g EXCEPT !.log_window = SelectSeq(g.log_window, LAMBDA x : x # lid)],
                    lid)

\* Mutant of prune_incidence: log_to_entities[lid] is not cleared.
prune_incidence_keep_set(g, lid, cutoff_ts) ==
    IF lid \notin DOMAIN g.logs THEN g
    ELSE IF g.logs[lid].ts_sec >= cutoff_ts THEN g
    ELSE IF lid \notin DOMAIN g.log_to_entities \/ g.log_to_entities[lid] = {} THEN g
    ELSE drop_log_refs(g, lid, g.log_to_entities[lid])

\* One iteration of the first loop of _prune_edges (lines 161-178).
prune_incidence(g, lid, cutoff_ts) ==
    IF lid \notin DOMAIN g.logs THEN g
    ELSE IF g.logs[lid].ts_sec >= cutoff_ts THEN g
    ELSE IF lid \notin DOMAIN g.log_to_entities \/ g.log_to_entities[lid] = {} THEN g
    ELSE [drop_log_refs(g, lid, g.log_to_entities[lid])
            EXCEPT !.log_to_entities[lid] = {}]

\* Mutant of prune_chain: a log exactly at the cutoff is detached too.
prune_chain_inclusive(g, lid, cutoff_ts) ==
    IF lid \notin DOMAIN g.logs THEN g
    ELSE IF g.logs[lid].prev_log_id = None THEN g
    ELSE IF g.logs[lid].ts_sec <= cutoff_ts
    THEN LET p == g.logs[lid].prev_log_id
             logs1 == IF p \in DOMAIN g.logs
                      THEN [g.logs EXCEPT ![p].next_log_id = None] ELSE g.logs
         IN [g EXCEPT !.logs = [logs1 EXCEPT ![lid].prev_log_id = None]]
    ELSE g

\* One iteration of the second loop of _prune_edges (lines 179-187).
prune_chain(g, lid, cutoff_ts) ==
    IF lid \notin DOMAIN g.logs THEN g
    ELSE IF g.logs[lid].prev_log_id = None THEN g
    ELSE IF g.logs[lid].ts_sec < cutoff_ts
    THEN LET p == g.logs[lid].prev_log_id
             logs1 == IF p \in DOMAIN g.logs
                      THEN [g.logs EXCEPT ![p].next_log_id = None] ELSE g.logs
         IN [g EXCEPT !.logs = [logs1 EXCEPT ![lid].prev_log_id = None]]
    ELSE g

RECURSIVE prune_incidence_loop(_, _, _)
prune_incidence_loop(g, lids, cutoff_ts) ==
    IF lids = <<>> THEN g
    ELSE prune_incidence_loop(prune_incidence(g, Head(lids), cutoff_ts),
                              Tail(lids), cutoff_ts)

RECURSIVE prune_chain_loop(_, _, _)
prune_chain_loop(g, lids, cutoff_ts) ==
    IF lids = <<>> THEN g
    ELSE prune_chain_loop(prune_chain(g, Head(lids), cutoff_ts), Tail(lids), cutoff_ts)

\* age_limit = ceil(-ln(theta_w) / lam), for lam > 0 (line 157).
age_limit(c) ==
    CeilDiv(NegLnMilli(c.theta_w) * Lambda(c).den, Lambda(c).num)

prune_edges(c, g, now_ts) ==
    IF c.theta_w <= 0 THEN g
    ELSE IF Lambda(c).num <= 0 THEN g
    ELSE IF age_limit(c) <= 0 THEN g
    ELSE LET cutoff_ts == now_ts - age_limit(c)
             g1 == prune_incidence_loop(g, g.log_window, cutoff_ts)
         IN prune_chain_loop(g1, g1.log_window, cutoff_ts)

SweepPeriod == 256
SummaryCap == 50

entity_activity_now(c, g, en) ==
    LET dt_steps == Max(0, g.step - en.last_step)
    IN IF dt_steps <= 0 THEN en.activity
       ELSE MulMilli(en.activity, PowMilli(c.activity_beta, dt_steps))

\* Mutant of prune_entities_by_activity: the sweep runs in every tick.
prune_entities_by_activity_every_tick(c, g) ==
    IF c.activity_epsilon <= 0 THEN g
    ELSE LET to_drop == {e \in DOMAIN g.entities :
                            entity_activity_now(c, g, g.entities[e]) < c.activity_epsilon}
             refs(e) == IF e \in DOMAIN g.entity_to_logs
                        THEN Range(g.entity_to_logs[e]) ELSE {}
         IN [g EXCEPT
               !.log_to_entities =
                   [l \in DOMAIN g.log_to_entities |->
                       g.log_to_entities[l] \ {e \in to_drop : l \in refs(e)}],
               !.entity_to_logs =
                   [e \in (DOMAIN g.entity_to_logs) \ to_drop |-> g.entity_to_logs[e]],
               !.entities = [e \in (DOMAIN g.entities) \ to_drop |-> g.entities[e]]]

prune_entities_by_activity(c, g) ==
    IF c.activity_epsilon <= 0 THEN g
    ELSE IF g.step % SweepPeriod # 0 THEN g
    ELSE LET to_drop == {e \in DOMAIN g.entities :
                            entity_activity_now(c, g, g.entities[e]) < c.activity_epsilon}
             refs(e) == IF e \in DOMAIN g.entity_to_logs
                        THEN Range(g.entity_to_logs[e]) ELSE {}
         IN [g EXCEPT
               !.log_to_entities =
                   [l \in DOMAIN g.log_to_entities |->
                       g.log_to_entities[l] \ {e \in to_drop : l \in refs(e)}],
               !.entity_to_logs =
                   [e \in (DOMAIN g.entity_to_logs) \ to_drop |-> g.entity_to_logs[e]],
               !.entities = [e \in (DOMAIN g.entities) \ to_drop |-> g.entities[e]]]

tick(c, g, now_ts) ==
    prune_entities_by_activity(c, prune_edges(c, evict_logs(c, g, now_ts), now_ts))

(***************************************************************************)
(* Dual-path retrieval (retrieval.py).                                     *)
(***************************************************************************)
get_entities_for_log(g, log_id) ==
    IF log_id \in DOMAIN g.log_to_entities THEN g.log_to_entities[log_id] ELSE {}

get_logs_for_entity(g, entity) ==
    IF entity \in DOMAIN g.entity_to_logs THEN g.entity_to_logs[entity] ELSE <<>>

entity_degree(g, entity) == Len(get_logs_for_entity(g, entity))

\* dict.get: <<>> for an absent key, <<value>> otherwise.
Get(tab, k) == IF k \in DOMAIN tab THEN <<tab[k]>> ELSE <<>>

\* Mutant of min_dist: the larger of the two distances.
min_dist_max(a, b) ==
    IF a = <<>> THEN (IF b # <<>> THEN b[1] ELSE 999999)
    ELSE IF b = <<>> THEN a[1]
    ELSE Max(a[1], b[1])

min_dist(a, b) ==
    IF a = <<>> THEN (IF b # <<>> THEN b[1] ELSE 999999)
    ELSE IF b = <<>> THEN a[1]
    ELSE Min(a[1], b[1])

PathHopLimit == 2048

\* One of the two while loops of _temporal_path_min_edge_weight: from cur along
\* prev (forward = FALSE) or next (forward = TRUE) until stop is reached.
RECURSIVE path_walk(_, _, _, _, _, _, _, _)
path_walk(c, g, cur, stop, forward, now_ts, w_min, visited) ==
    IF cur = stop \/ visited >= PathHopLimit THEN [cur |-> cur, w_min |-> w_min]
    ELSE IF cur \notin DOMAIN g.logs THEN [cur |-> cur, w_min |-> w_min]
    ELSE LET ptr == IF forward THEN g.logs[cur].next_log_id ELSE g.logs[cur].prev_log_id
             w == IF forward THEN temporal_edge_weight(c, g, cur, ptr, now_ts)
                  ELSE temporal_edge_weight(c, g, ptr, cur, now_ts)
         IN IF ptr = None THEN [cur |-> cur, w_min |-> w_min]
            ELSE path_walk(c, g, ptr, stop, forward, now_ts, Min(w_min, w), visited + 1)

temporal_path_min_edge_weight(c, g, src, dst, now_ts) ==
    IF src = dst THEN 1000
    ELSE LET back == path_walk(c, g, dst, src, FALSE, now_ts, 1000, 0)
             forth == path_walk(c, g, src, dst, TRUE, now_ts, 1000, 0)
         IN IF back.cur = src THEN back.w_min
            ELSE IF forth.cur = dst THEN forth.w_min
            ELSE 0

\* Lines 71-78: the entities of the target that are not hubs, the structural
\* candidates (all at distance 2) and the entities each shares with the target.
\* Mutant of struct_entities: an entity whose degree equals the threshold is
\* skipped too.
struct_entities_strict(c, g, target) ==
    {e \in get_entities_for_log(g, target) :
        ~(entity_degree(g, e) >= c.degree_threshold_dmax)}

struct_entities(c, g, target) ==
    {e \in get_entities_for_log(g, target) :
        ~(entity_degree(g, e) > c.degree_threshold_dmax)}

\* Mutant of cand_dist_struct: the target is not skipped.
cand_dist_struct_with_target(c, g, target) ==
    [lid \in UNION {Range(get_logs_for_entity(g, e)) :
                       e \in struct_entities(c, g, target)} |-> 2]

cand_dist_struct(c, g, target) ==
    [lid \in UNION {Range(get_logs_for_entity(g, e)) \ {target} :
                       e \in struct_entities(c, g, target)} |-> 2]

shared_entities(c, g, target, lid) ==
    {e \in struct_entities(c, g, target) :
        lid # target /\ lid \in Range(get_logs_for_entity(g, e))}

\* Lines 80-86 and 87-93: a walk of at most k hops, hop d reaching cur.
RECURSIVE temporal_walk(_, _, _, _, _, _)
temporal_walk(g, cur, d, k, forward, tab) ==
    IF d > k THEN tab
    ELSE IF cur \notin DOMAIN g.logs THEN tab
    ELSE LET ptr == IF forward THEN g.logs[cur].next_log_id ELSE g.logs[cur].prev_log_id
         IN IF ptr = None THEN tab
            ELSE temporal_walk(g, ptr, d + 1, k, forward,
                     Put(tab, ptr, Min(IF ptr \in DOMAIN tab THEN tab[ptr]
                                       ELSE 1000000000, d)))

\* Mutant of cand_dist_time: both walks take one hop more than temporal_k.
cand_dist_time_extra_hop(c, g, target) ==
    temporal_walk(g, target, 1, c.temporal_k + 1, TRUE,
                  temporal_walk(g, target, 1, c.temporal_k + 1, FALSE, <<>>))

cand_dist_time(c, g, target) ==
    temporal_walk(g, target, 1, c.temporal_k, TRUE,
                  temporal_walk(g, target, 1, c.temporal_k, FALSE, <<>>))

\* Mutant of dedup_step: the groups are keyed by the raw message.
dedup_step_raw_key(c, g, msg2best, lid) ==
    IF lid \notin DOMAIN g.logs THEN msg2best
    ELSE LET ln == g.logs[lid]
             key == ln.message
         IN IF normalize_message_for_dedup(ln.message, c.dedup_case_insensitive) = <<>>
            THEN msg2best
            ELSE IF key \notin DOMAIN msg2best THEN Put(msg2best, key, lid)
            ELSE IF msg2best[key] \notin DOMAIN g.logs
                    \/ ln.ts_sec > g.logs[msg2best[key]].ts_sec
            THEN Put(msg2best, key, lid)
            ELSE msg2best

\* Mutant of dedup_step: on equal timestamps the later encounter wins.
dedup_step_last_wins(c, g, msg2best, lid) ==
    IF lid \notin DOMAIN g.logs THEN msg2best
    ELSE LET ln == g.logs[lid]
             key == normalize_message_for_dedup(ln.message, c.dedup_case_insensitive)
         IN IF key = <<>> THEN msg2best
            ELSE IF key \notin DOMAIN msg2best THEN Put(msg2best, key, lid)
            ELSE IF msg2best[key] \notin DOMAIN g.logs
                    \/ ln.ts_sec >= g.logs[msg2best[key]].ts_sec
            THEN Put(msg2best, key, lid)
            ELSE msg2best

\* One iteration of the dedup loop (lines 96-109).
dedup_step(c, g, msg2best, lid) ==
    IF lid \notin DOMAIN g.logs THEN msg2best
    ELSE LET ln == g.logs[lid]
             key == normalize_message_for_dedup(ln.message, c.dedup_case_insensitive)
         IN IF key = <<>> THEN msg2best
            ELSE IF key \notin DOMAIN msg2best THEN Put(msg2best, key, lid)
            ELSE IF msg2best[key] \notin DOMAIN g.logs
                    \/ ln.ts_sec > g.logs[msg2best[key]].ts_sec
            THEN Put(msg2best, key, lid)
            ELSE msg2best

RECURSIVE dedup_loop(_, _, _, _)
dedup_loop(c, g, msg2best, order) ==
    IF order = <<>> THEN msg2best
    ELSE dedup_loop(c, g, dedup_step(c, g, msg2best, Head(order)), Tail(order))

\* Mutant of candidate_weight: the temporal and structural weights are added
\* instead of combined by max.
candidate_weight_sum(c, g, target, lid, now_ts, in_time, shared) ==
    LET w_time == IF in_time
                  THEN Max(0, temporal_path_min_edge_weight(c, g, target, lid, now_ts))
                  ELSE 0
        pair(e) == Min(structural_edge_weight(c, g, target, e, now_ts),
                       structural_edge_weight(c, g, lid, e, now_ts))
        best == IF shared = {} THEN 0
                ELSE Max(0, CHOOSE w \in {pair(e) : e \in shared} :
                                \A e \in shared : w >= pair(e))
    IN w_time + best

\* Lines 121-130: the temporal and structural weights of a candidate.
candidate_weight(c, g, target, lid, now_ts, in_time, shared) ==
    LET w_time == IF in_time
                  THEN Max(0, temporal_path_min_edge_weight(c, g, target, lid, now_ts))
                  ELSE 0
        pair(e) == Min(structural_edge_weight(c, g, target, e, now_ts),
                       structural_edge_weight(c, g, lid, e, now_ts))
        best == IF shared = {} THEN 0
                ELSE Max(0, CHOOSE w \in {pair(e) : e \in shared} :
                                \A e \in shared : w >= pair(e))
    IN Max(w_time, best)

\* Mutant of evidence_item: time_offset is taken from the candidate to the
\* target.
evidence_item_offset_reversed(c, g, target, lid, struct, time) ==
    LET ln == g.logs[lid]
        tgt == g.logs[target]
        dist == Max(1, min_dist(Get(struct, lid), Get(time, lid)))
        sev == IF ln.severity = 0 THEN severity_level(ln.message) ELSE ln.severity
        shared == IF lid \in DOMAIN struct THEN shared_entities(c, g, target, lid) ELSE {}
        w == candidate_weight(c, g, target, lid, tgt.ts_sec, lid \in DOMAIN time, shared)
    IN [log_id |-> lid, ts_sec |-> ln.ts_sec, message |-> ln.message, severity |-> sev,
        dist |-> dist,
        score |-> c.score_a * sev + MulMilli(c.score_b, 1000 \div dist)
                      + MulMilli(c.score_c, w),
        edge_weight |-> w,
        paths |-> (IF lid \in DOMAIN struct THEN {"struct"} ELSE {})
                      \cup (IF lid \in DOMAIN time THEN {"time"} ELSE {}),
        shared_entities |-> SortedStrings(shared_entities(c, g, target, lid)),
        time_offset |-> IF lid \in DOMAIN time THEN <<tgt.ts_sec - ln.ts_sec>> ELSE <<>>]

\* Lines 113-140: the EvidenceItem of a deduplicated candidate.
evidence_item(c, g, target, lid, struct, time) ==
    LET ln == g.logs[lid]
        tgt == g.logs[target]
        dist == Max(1, min_dist(Get(struct, lid), Get(time, lid)))
        sev == IF ln.severity = 0 THEN severity_level(ln.message) ELSE ln.severity
        shared == IF lid \in DOMAIN struct THEN shared_entities(c, g, target, lid) ELSE {}
        w == candidate_weight(c, g, target, lid, tgt.ts_sec, lid \in DOMAIN time, shared)
    IN [log_id |-> lid, ts_sec |-> ln.ts_sec, message |-> ln.message, severity |-> sev,
        dist |-> dist,
        score |-> c.score_a * sev + MulMilli(c.score_b, 1000 \div dist)
                      + MulMilli(c.score_c, w),
        edge_weight |-> w,
        paths |-> (IF lid \in DOMAIN struct THEN {"struct"} ELSE {})
                      \cup (IF lid \in DOMAIN time THEN {"time"} ELSE {}),
        shared_entities |-> SortedStrings(shared_entities(c, g, target, lid)),
        time_offset |-> IF lid \in DOMAIN time THEN <<ln.ts_sec - tgt.ts_sec>> ELSE <<>>]

\* The sort key (score, ts_sec) of line 141, compared for reverse=True.
sorts_before(x, y) ==
    x.score > y.score \/ (x.score = y.score /\ x.ts_sec > y.ts_sec)

\* Mutant of sort_insert: items are ordered by score alone.
RECURSIVE sort_insert_score_only(_, _)
sort_insert_score_only(sorted, x) ==
    IF sorted = <<>> THEN <<x>>
    ELSE IF x.score > Head(sorted).score THEN <<x>> \o sorted
    ELSE <<Head(sorted)>> \o sort_insert_score_only(Tail(sorted), x)

\* list.sort is stable, also with reverse=True: an item goes after every item
\* that does not sort after it.
RECURSIVE sort_insert(_, _)
sort_insert(sorted, x) ==
    IF sorted = <<>> THEN <<x>>
    ELSE IF sorts_before(x, Head(sorted)) THEN <<x>> \o sorted
    ELSE <<Head(sorted)>> \o sort_insert(Tail(sorted), x)

RECURSIVE sort_items(_, _)
sort_items(sorted, items) ==
    IF items = <<>> THEN sorted
    ELSE sort_items(sort_insert(sorted, Head(items)), Tail(items))

cand_ids(c, g, target) ==
    (DOMAIN cand_dist_struct(c, g, target)) \cup (DOMAIN cand_dist_time(c, g, target))

\* Mutant of dual_path_retrieve: the sorted list is returned without the cut
\* to evidence_budget_nmax.
dual_path_retrieve_uncut(c, g, target, order) ==
    IF target \notin DOMAIN g.logs THEN [evidence |-> <<>>, ranked |-> <<>>]
    ELSE LET struct == cand_dist_struct(c, g, target)
             time == cand_dist_time(c, g, target)
             msg2best == dedup_loop(c, g, <<>>, order)
             dedup_ids == {msg2best[k] : k \in DOMAIN msg2best}
             ids == SelectSeq(order, LAMBDA l : l \in dedup_ids /\ l \in DOMAIN g.logs)
             items == [i \in DOMAIN ids |-> evidence_item(c, g, target, ids[i], struct, time)]
             ranked == sort_items(<<>>, items)
         IN [evidence |-> ranked, ranked |-> ranked]

\* dual_path_retrieve; order is the order in which the sets cand_ids and
\* dedup_ids are iterated (a property of the set implementation, not of the
\* code).  ranked is the sorted list before the cut to evidence_budget_nmax.
dual_path_retrieve(c, g, target, order) ==
    IF target \notin DOMAIN g.logs THEN [evidence |-> <<>>, ranked |-> <<>>]
    ELSE LET struct == cand_dist_struct(c, g, target)
             time == cand_dist_time(c, g, target)
             msg2best == dedup_loop(c, g, <<>>, order)
             dedup_ids == {msg2best[k] : k \in DOMAIN msg2best}
             ids == SelectSeq(order, LAMBDA l : l \in dedup_ids /\ l \in DOMAIN g.logs)
             items == [i \in DOMAIN ids |-> evidence_item(c, g, target, ids[i], struct, time)]
             ranked == sort_items(<<>>, items)
         IN [evidence |-> SubSeq(ranked, 1, Min(Len(ranked), c.evidence_budget_nmax)),
             ranked |-> ranked]

Orders(S) == {f \in [1..Cardinality(S) -> S] : \A i, j \in DOMAIN f : f[i] = f[j] => i = j}

(***************************************************************************)
(* build_evidence_pack (packaging.py:20-88): the nodes and edges of the     *)
(* GraphPack.  Local ids are numbers: log Li is i (the target is 0), entity *)
(* Ej is j, relation Rn is n.  Weights are thousandths, so round(w, 6)     *)
(* changes nothing.                                                        *)
(***************************************************************************)
IndexOf(seq, x) == CHOOSE i \in DOMAIN seq : seq[i] = x

\* Lines 36 and 24-26: [target] + evidence ids; the local id of a log is its
\* last position in that list, counted from 0.
ordered_log_ids(target, evidence) ==
    <<target>> \o [i \in DOMAIN evidence |-> evidence[i].log_id]

id_map_logs(target, evidence, lid) ==
    LET ids == ordered_log_ids(target, evidence)
    IN (CHOOSE i \in DOMAIN ids : ids[i] = lid /\ \A j \in DOMAIN ids : ids[j] = lid => j <= i) - 1

\* Lines 27-33: the entities of the selected logs, numbered in sorted order.
id_map_entities(g, target, evidence) ==
    SortedStrings(UNION {get_entities_for_log(g, lid) :
                            lid \in Range(ordered_log_ids(target, evidence))})

\* Lines 45-52: log nodes of the resident selected logs, then entity nodes.
pack_nodes(g, target, evidence) ==
    LET ids == SelectSeq(ordered_log_ids(target, evidence), LAMBDA l : l \in DOMAIN g.logs)
        ents == id_map_entities(g, target, evidence)
    IN [i \in DOMAIN ids |->
           [id |-> id_map_logs(target, evidence, ids[i]), type |-> "log",
            timestamp |-> g.logs[ids[i]].ts_sec, severity |-> g.logs[ids[i]].severity,
            value |-> <<>>]]
       \o [j \in DOMAIN ents |->
           [id |-> j, type |-> "entity", timestamp |-> 0, severity |-> 0,
            value |-> ents[j]]]

\* Lines 56-64: the struct edges of one selected log, entities in sorted order.
RECURSIVE pack_struct_edges_of(_, _, _, _, _, _, _)
pack_struct_edges_of(c, g, target, evidence, lid, ents, now_ts) ==
    IF ents = <<>> THEN <<>>
    ELSE LET e == Head(ents)
             w == structural_edge_weight(c, g, lid, e, now_ts)
             rest == pack_struct_edges_of(c, g, target, evidence, lid, Tail(ents), now_ts)
         IN IF w < c.theta_w THEN rest
            ELSE <<[type |-> "struct", source |-> id_map_logs(target, evidence, lid),
                    target |-> IndexOf(id_map_entities(g, target, evidence), e),
                    weight |-> w]>> \o rest

RECURSIVE pack_struct_edges(_, _, _, _, _, _)
pack_struct_edges(c, g, target, evidence, lids, now_ts) ==
    IF lids = <<>> THEN <<>>
    ELSE pack_struct_edges_of(c, g, target, evidence, Head(lids),
                              SortedStrings(get_entities_for_log(g, Head(lids))), now_ts)
         \o pack_struct_edges(c, g, target, evidence, Tail(lids), now_ts)

\* Mutant of pack_time_edges: the time edges are not compared with theta_w.
RECURSIVE pack_time_edges_unfiltered(_, _, _, _, _, _)
pack_time_edges_unfiltered(c, g, target, evidence, lids, now_ts) ==
    IF lids = <<>> THEN <<>>
    ELSE LET lid == Head(lids)
             rest == pack_time_edges_unfiltered(c, g, target, evidence, Tail(lids), now_ts)
         IN IF lid \notin DOMAIN g.logs THEN rest
            ELSE IF g.logs[lid].next_log_id = None THEN rest
            ELSE IF g.logs[lid].next_log_id
                       \notin Range(ordered_log_ids(target, evidence)) THEN rest
            ELSE <<[type |-> "time", source |-> id_map_logs(target, evidence, lid),
                    target |-> id_map_logs(target, evidence, g.logs[lid].next_log_id),
                    weight |-> temporal_edge_weight(c, g, lid, g.logs[lid].next_log_id,
                                                    now_ts)]>> \o rest

\* Lines 65-76: a time edge for every selected log whose next log is selected.
RECURSIVE pack_time_edges(_, _, _, _, _, _)
pack_time_edges(c, g, target, evidence, lids, now_ts) ==
    IF lids = <<>> THEN <<>>
    ELSE LET lid == Head(lids)
             rest == pack_time_edges(c, g, target, evidence, Tail(lids), now_ts)
         IN IF lid \notin DOMAIN g.logs THEN rest
            ELSE IF g.logs[lid].next_log_id = None THEN rest
            ELSE IF g.logs[lid].next_log_id
                       \notin Range(ordered_log_ids(target, evidence)) THEN rest
            ELSE LET w == temporal_edge_weight(c, g, lid, g.logs[lid].next_log_id, now_ts)
                 IN IF w < c.theta_w THEN rest
                    ELSE <<[type |-> "time",
                            source |-> id_map_logs(target, evidence, lid),
                            target |-> id_map_logs(target, evidence,
                                                   g.logs[lid].next_log_id),
                            weight |-> w]>> \o rest

\* Lines 53-76: struct edges first, then time edges; relation Rn is the n-th
\* element.
pack_edges(c, g, target, evidence) ==
    LET lids == ordered_log_ids(target, evidence)
        now_ts == g.logs[target].ts_sec
    IN pack_struct_edges(c, g, target, evidence, lids, now_ts)
       \o pack_time_edges(c, g, target, evidence, lids, now_ts)

\* Lines 77-84: the sentences of one evidence item.  A sentence is kept as its
\* parts: the local id of the log and either the local ids of the shared
\* entities or the time offset.
summary_sentences(c, g, target, evidence, it) ==
    LET shared == SortedStrings(get_entities_for_log(g, target)
                                   \cap get_entities_for_log(g, it.log_id))
        emap == id_map_entities(g, target, evidence)
        known == SelectSeq(shared, LAMBDA e : e \in Range(emap))
    IN (IF shared # <<>>
        THEN <<[kind |-> "shares", log |-> id_map_logs(target, evidence, it.log_id),
                entities |-> [j \in DOMAIN known |-> IndexOf(emap, known[j])],
                offset |-> <<>>]>>
        ELSE <<>>)
       \o (IF it.time_offset # <<>>
              /\ (IF it.time_offset[1] < 0 THEN 0 - it.time_offset[1]
                  ELSE it.time_offset[1]) <= c.temporal_k
           THEN <<[kind |-> "within", log |-> id_map_logs(target, evidence, it.log_id),
                   entities |-> <<>>, offset |-> it.time_offset]>>
           ELSE <<>>)

RECURSIVE summary_from(_, _, _, _, _)
summary_from(c, g, target, evidence, i) ==
    IF i > Len(evidence) THEN <<>>
    ELSE summary_sentences(c, g, target, evidence, evidence[i])
         \o summary_from(c, g, target, evidence, i + 1)

\* Mutant of pack_summary: the proximity sentence is written for every item
\* that has a time offset.
pack_summary_any_offset(c, g, target, evidence) ==
    LET all == summary_from([c EXCEPT !.temporal_k = 1000000], g, target, evidence, 1)
    IN SubSeq(all, 1, Min(SummaryCap, Len(all)))

\* Lines 77-85: summary[:50].
pack_summary(c, g, target, evidence) ==
    LET all == summary_from(c, g, target, evidence, 1)
    IN SubSeq(all, 1, Min(SummaryCap, Len(all)))

\* Mutant of build_evidence_pack: a target that is not resident gives an empty
\* pack instead of an error.
build_evidence_pack_no_check(c, g, target, evidence) ==
    IF target \notin DOMAIN g.logs
    THEN [raised |-> FALSE, nodes |-> <<>>, edges |-> <<>>, summary |-> <<>>]
    ELSE [raised |-> FALSE, nodes |-> pack_nodes(g, target, evidence),
          edges |-> pack_edges(c, g, target, evidence),
          summary |-> pack_summary(c, g, target, evidence)]

\* build_evidence_pack raises ValueError for a target that is not resident
\* (lines 21-23).
build_evidence_pack(c, g, target, evidence) ==
    IF target \notin DOMAIN g.logs
    THEN [raised |-> TRUE, nodes |-> <<>>, edges |-> <<>>, summary |-> <<>>]
    ELSE [raised |-> FALSE, nodes |-> pack_nodes(g, target, evidence),
          edges |-> pack_edges(c, g, target, evidence),
          summary |-> pack_summary(c, g, target, evidence)]

\* build_prompt (prompt.py:14-21) raises ValueError for a target that is not
\* resident; otherwise the prompt is composed of the fixed instructions, the
\* target's timestamp, severity and message, and the pack.  The text is kept
\* as these parts and its character count is not computed.
build_prompt(g, target_log_id, pack) ==
    IF target_log_id \notin DOMAIN g.logs
    THEN [raised |-> TRUE, target_log_id |-> target_log_id, prompt |-> <<>>]
    ELSE [raised |-> FALSE, target_log_id |-> target_log_id,
          prompt |-> <<[ts_sec |-> g.logs[target_log_id].ts_sec,
                        severity |-> g.logs[target_log_id].severity,
                        message |-> g.logs[target_log_id].message,
                        pack |-> pack]>>]

(***************************************************************************)
(* Configurations.  DefaultConfig holds the defaults of RecallConfig       *)
(* (config.py:8-24); the configurations explored shrink the window to the  *)
(* model's time scale and vary decay, theta_w and the activity parameters. *)
(***************************************************************************)
DefaultConfig ==
    [graph_window_t_sec |-> 900, decay_lambda |-> <<>>, theta_w |-> 50,
     activity_beta |-> 990, activity_alpha |-> 1000, activity_epsilon |-> 100,
     temporal_k |-> 15, evidence_budget_nmax |-> 30, degree_threshold_dmax |-> 200,
     score_a |-> 1000, score_b |-> 1000, score_c |-> 1000,
     dedup_case_insensitive |-> FALSE,
     theta_tc |-> 2, theta_rf |-> 2, delta_t_sec |-> 300, min_token_len |-> 2,
     enable_severity_trigger |-> TRUE, enable_burst_trigger |-> TRUE,
     enable_semantic_channel |-> FALSE, semantic_trigger_min_entities |-> 1]

SmallWindow == [DefaultConfig EXCEPT !.graph_window_t_sec = 2]

GraphConfigs ==
    { SmallWindow,
      [SmallWindow EXCEPT !.theta_w = 500, !.decay_lambda = <<693>>],
      [SmallWindow EXCEPT !.theta_w = 1000],
      [SmallWindow EXCEPT !.activity_beta = 50],
      [SmallWindow EXCEPT !.graph_window_t_sec = 0],
      [SmallWindow EXCEPT !.graph_window_t_sec = 0, !.decay_lambda = <<2996>>] }

(***************************************************************************)
(* Inputs of add_log: entity iterables (raw strings, some padded, empty or *)
(* blacklisted), messages and severities.                                  *)
(***************************************************************************)
EntityInputs ==
    { {},
      {<<"a">>},
      {<<" ","a"," ">>, <<"b">>, <<"/","t","m","p">>, <<>>},
      {<<"b">>, <<" ",":",":","1">>, <<" ">>} }

PlainMessages == { <<"x">> }

(***************************************************************************)
(* The graph as a state machine.  A run starts from a freshly constructed  *)
(* graph (step 0) or, with near_sweep and a window that evicts, from the   *)
(* empty graph that SweepPeriod - 2 earlier arrivals leave behind once     *)
(* they have all been evicted; log ids and timestamps are counted from     *)
(* that point.                                                             *)
(***************************************************************************)
SetGraph(g) ==
    /\ step' = g.step
    /\ logs' = g.logs
    /\ entities' = g.entities
    /\ log_to_entities' = g.log_to_entities
    /\ entity_to_logs' = g.entity_to_logs
    /\ log_window' = g.log_window
    /\ last_log_id' = g.last_log_id

InitGraph(configs, near_sweep) ==
    /\ cfg \in configs
    /\ step \in {0} \cup (IF near_sweep /\ cfg.graph_window_t_sec > 0
                          THEN {SweepPeriod - 2} ELSE {})
    /\ logs = <<>>
    /\ entities = <<>>
    /\ log_to_entities = <<>>
    /\ entity_to_logs = <<>>
    /\ log_window = <<>>
    /\ last_log_id = None
    /\ issued = 0
    /\ clock = 0
    /\ last_op = [op |-> "init", now |-> 0, evicted |-> {}, dropped |-> {}]

AddLog(messages, severities) ==
    /\ issued < MaxLogs
    /\ \E ts \in clock..MaxTs, message \in messages, ents \in EntityInputs,
          severity \in severities :
          /\ SetGraph(add_log(cfg, GraphState, issued + 1, ts, message, ents, severity))
          /\ clock' = ts
          /\ last_op' = [op |-> "add_log", now |-> ts, evicted |-> {}, dropped |-> {}]
    /\ issued' = issued + 1
    /\ UNCHANGED cfg

Tick ==
    /\ \E now \in clock..MaxTs :
          /\ SetGraph(tick(cfg, GraphState, now))
          /\ last_op' = [op |-> "tick", now |-> now,
                         evicted |-> (DOMAIN logs) \ (DOMAIN logs'),
                         dropped |-> (DOMAIN entities) \ (DOMAIN entities')]
    /\ UNCHANGED <<cfg, issued, clock>>

(***************************************************************************)
(* TokenRecurrenceCounter (recurrence.py:8-35).  st is the pair of fields  *)
(* [q, counts]; a token is a character sequence.                           *)
(***************************************************************************)
unique_tokens(tokens) == {t \in Range(tokens) : t # <<>>}

\* self._counts[t] += 1 on a defaultdict(int).
count_inc(counts, t) == Put(counts, t, (IF t \in DOMAIN counts THEN counts[t] ELSE 0) + 1)

\* self._counts[t] -= 1, and the entry is dropped when it is <= 0 (lines 30-32).
count_dec(counts, t) ==
    LET v == (IF t \in DOMAIN counts THEN counts[t] ELSE 0) - 1
    IN IF v <= 0 THEN Del(counts, t) ELSE Put(counts, t, v)

\* for t in tok_set: self._counts[t] += 1 (lines 19-20).
RECURSIVE count_inc_all(_, _)
count_inc_all(counts, toks) ==
    IF toks = {} THEN counts
    ELSE LET t == CHOOSE x \in toks : TRUE
         IN count_inc_all(count_inc(counts, t), toks \ {t})

\* for t in tok_set: decrement and drop (lines 29-32).
RECURSIVE count_dec_all(_, _)
count_dec_all(counts, toks) ==
    IF toks = {} THEN counts
    ELSE LET t == CHOOSE x \in toks : TRUE
         IN count_dec_all(count_dec(counts, t), toks \ {t})

RECURSIVE rc_evict_loop(_, _)
rc_evict_loop(st, cutoff) ==
    IF st.q # <<>> /\ Head(st.q).ts < cutoff
    THEN rc_evict_loop([q |-> Tail(st.q),
                        counts |-> count_dec_all(st.counts, Head(st.q).tok_set)],
                       cutoff)
    ELSE st

\* Mutant of rc_evict: an entry exactly at the cutoff is evicted too.
rc_evict_inclusive(window_sec, st, now_ts) ==
    IF window_sec <= 0 THEN st ELSE rc_evict_loop(st, now_ts - window_sec + 1)

rc_evict(window_sec, st, now_ts) ==
    IF window_sec <= 0 THEN st ELSE rc_evict_loop(st, now_ts - window_sec)

\* Mutant of rc_push: the entries that left the window are not evicted.
rc_push_no_evict(window_sec, st, ts, tokens_in_log) ==
    LET tok_set == unique_tokens(tokens_in_log)
    IN [q |-> Append(st.q, [ts |-> ts, tok_set |-> tok_set]),
        counts |-> count_inc_all(st.counts, tok_set)]

rc_push(window_sec, st, ts, tokens_in_log) ==
    LET tok_set == unique_tokens(tokens_in_log)
    IN rc_evict(window_sec,
                [q |-> Append(st.q, [ts |-> ts, tok_set |-> tok_set]),
                 counts |-> count_inc_all(st.counts, tok_set)],
                ts)

rf(counts, token) == IF token \in DOMAIN counts THEN counts[token] ELSE 0

CounterWindows == {0, 1, 2}

TokenInputs ==
    { <<>>, <<<<"a">>>>, <<<<"a">>, <<"a">>>>, <<<<"a">>, <<"b">>>>, <<<<>>, <<"b">>>> }

InitCounter(windows) ==
    /\ rc_window_sec \in windows
    /\ rc_q = <<>>
    /\ rc_counts = <<>>
    /\ rc_pushed = <<>>

Push ==
    /\ Len(rc_pushed) < MaxLogs
    /\ \E ts \in (IF rc_pushed = <<>> THEN 0 ELSE rc_pushed[Len(rc_pushed)].ts)..MaxTs,
          tokens \in TokenInputs :
          LET st == rc_push(rc_window_sec, [q |-> rc_q, counts |-> rc_counts], ts, tokens)
          IN /\ rc_q' = st.q
             /\ rc_counts' = st.counts
             /\ rc_pushed' = Append(rc_pushed, [ts |-> ts, tokens |-> tokens])
    /\ UNCHANGED <<rc_window_sec, graph_vars, burst_vars, retr, pl, call>>

(***************************************************************************)
(* TemplateBurstDetector (recurrence.py:37-86).                            *)
(***************************************************************************)
RECURSIVE SqrtSearch(_, _, _)
SqrtSearch(n, lo, hi) ==
    IF hi - lo <= 1 THEN lo
    ELSE LET mid == (lo + hi) \div 2
         IN IF mid * mid <= n THEN SqrtSearch(n, mid, hi) ELSE SqrtSearch(n, lo, mid)

\* math.sqrt on thousandths: sqrt(v/1000) in thousandths, rounded down.
SqrtMilli(v) == SqrtSearch(v * 1000, 0, 46341)

RECURSIVE bd_evict_loop(_, _)
bd_evict_loop(st, cutoff) ==
    IF st.q # <<>> /\ Head(st.q).ts < cutoff
    THEN bd_evict_loop([st EXCEPT !.q = Tail(st.q),
                                  !.win_counts = count_dec(st.win_counts, Head(st.q).key)],
                       cutoff)
    ELSE st

bd_evict(params, st, now_ts) ==
    IF params.burst_window_sec <= 0 THEN st
    ELSE bd_evict_loop(st, now_ts - params.burst_window_sec)

\* Mutant of ema_update: the variance term is the squared distance from the
\* previous mean.
ema_update_squared(params, ema, key, x) ==
    LET a == params.ema_alpha
        known == key \in DOMAIN ema /\ ema[key].initialized
        prev_mean == ema[key].mean
        mean1 == MulMilli(1000 - a, prev_mean) + MulMilli(a, x)
        var1 == MulMilli(1000 - a, ema[key].var)
                    + MulMilli(MulMilli(a, x - prev_mean), x - prev_mean)
    IN IF known THEN [mean |-> mean1, var |-> var1, initialized |-> TRUE]
       ELSE [mean |-> x, var |-> 0, initialized |-> TRUE]

\* _EmaStats after the update of lines 62-71, for the window count x.
ema_update(params, ema, key, x) ==
    LET a == params.ema_alpha
        known == key \in DOMAIN ema /\ ema[key].initialized
        prev_mean == ema[key].mean
        mean1 == MulMilli(1000 - a, prev_mean) + MulMilli(a, x)
        var1 == MulMilli(1000 - a, ema[key].var)
                    + MulMilli(MulMilli(a, x - prev_mean), x - mean1)
    IN IF known THEN [mean |-> mean1, var |-> var1, initialized |-> TRUE]
       ELSE [mean |-> x, var |-> 0, initialized |-> TRUE]

\* Mutant of burst_decision: both comparisons are off by one.
burst_decision_inclusive(x, threshold) ==
    IF threshold < 1000 THEN FALSE ELSE x >= threshold

\* Lines 74-76: no burst unless the threshold exceeds 1.0 and x exceeds it.
burst_decision(x, threshold) ==
    IF threshold <= 1000 THEN FALSE ELSE x > threshold

\* push_and_check: the detector state after the call and the value returned.
push_and_check(params, st, ts, template_key) ==
    IF template_key = <<>> THEN [st |-> st, fired |-> FALSE]
    ELSE LET st1 == bd_evict(params,
                        [st EXCEPT !.q = Append(st.q, [ts |-> ts, key |-> template_key]),
                                   !.win_counts = count_inc(st.win_counts, template_key)],
                        ts)
             x == 1000 * rf(st1.win_counts, template_key)
             stats == ema_update(params, st1.ema, template_key, x)
             std == SqrtMilli(Max(stats.var, 0))
             threshold == stats.mean + MulMilli(params.sigma, std)
         IN [st |-> [st1 EXCEPT !.ema = Put(st1.ema, template_key, stats)],
             fired |-> burst_decision(x, threshold)]

DefaultBurstParams == [burst_window_sec |-> 300, ema_alpha |-> 10, sigma |-> 3000]

BurstParams ==
    { [DefaultBurstParams EXCEPT !.burst_window_sec = 2],
      [burst_window_sec |-> 2, ema_alpha |-> 500, sigma |-> 0],
      [burst_window_sec |-> 0, ema_alpha |-> 500, sigma |-> 1000],
      [burst_window_sec |-> 1, ema_alpha |-> 1000, sigma |-> 0 - 1000] }

TemplateKeys == { <<>>, <<"k">>, <<"m">> }

InitBurst(params) ==
    /\ bd_params \in params
    /\ bd_q = <<>>
    /\ bd_win_counts = <<>>
    /\ bd_ema = <<>>
    /\ bd_out = [calls |-> 0, ts |-> 0, key |-> <<>>, first |-> FALSE, fired |-> FALSE]

PushAndCheck ==
    /\ bd_out.calls < MaxLogs + 1
    /\ \E ts \in bd_out.ts..MaxTs, key \in TemplateKeys :
          LET r == push_and_check(bd_params,
                       [q |-> bd_q, win_counts |-> bd_win_counts, ema |-> bd_ema], ts, key)
          IN /\ bd_q' = r.st.q
             /\ bd_win_counts' = r.st.win_counts
             /\ bd_ema' = r.st.ema
             /\ bd_out' = [calls |-> bd_out.calls + 1, ts |-> ts, key |-> key,
                           first |-> key # <<>> /\ ~(key \in DOMAIN bd_ema
                                                     /\ bd_ema[key].initialized),
                           fired |-> r.fired]
    /\ UNCHANGED <<bd_params, graph_vars, counter_vars, retr, pl, call>>

(***************************************************************************)
(* Specifications, one per component; the components that a specification *)
(* does not exercise stay as constructed.                                  *)
(***************************************************************************)
\* No pipeline is running: the components are driven directly.
NoPipeline == [status |-> "none", enable_llm |-> FALSE, sem |-> "none", llm |-> "none",
               preds |-> <<>>]

NoRetrieval == [target |-> None, order |-> <<>>, evidence |-> <<>>, ranked |-> <<>>]

\* No function has been called directly.
NoCall == [fn |-> "none", n |-> 0, arg |-> <<>>, result |-> <<>>]

AddPlainLog ==
    AddLog(PlainMessages, {0})
        /\ UNCHANGED <<counter_vars, burst_vars, retr, pl, call>>

TickGraph == Tick /\ UNCHANGED <<counter_vars, burst_vars, retr, pl, call>>

NextGraph == AddPlainLog \/ TickGraph

InitSpecGraph ==
    /\ InitGraph(GraphConfigs, TRUE)
    /\ InitCounter({0})
    /\ InitBurst({DefaultBurstParams})
    /\ retr = NoRetrieval
    /\ pl = NoPipeline
    /\ call = NoCall

SpecGraph == InitSpecGraph /\ [][NextGraph]_vars

InitSpecCounter ==
    /\ InitGraph({DefaultConfig}, FALSE)
    /\ InitCounter(CounterWindows)
    /\ InitBurst({DefaultBurstParams})
    /\ retr = NoRetrieval
    /\ pl = NoPipeline
    /\ call = NoCall

SpecCounter == InitSpecCounter /\ [][Push]_vars

InitSpecBurst ==
    /\ InitGraph({DefaultConfig}, FALSE)
    /\ InitCounter({0})
    /\ InitBurst(BurstParams)
    /\ retr = NoRetrieval
    /\ pl = NoPipeline
    /\ call = NoCall

SpecBurst == InitSpecBurst /\ [][PushAndCheck]_vars

(***************************************************************************)
(* Retrieval over graphs built the way the pipeline drives the graph:      *)
(* every record is added and the graph ticked at the record's timestamp    *)
(* (pipeline.py:58-59); dual_path_retrieve is then called, at most once    *)
(* per record (pipeline.py:64-65), for any log id issued so far.  The      *)
(* severity is add_log's argument (0 leaves it to severity_level at        *)
(* retrieval).  Consecutive records are at most one second apart.          *)
(***************************************************************************)
RetrievalConfigs ==
    { [SmallWindow EXCEPT !.temporal_k = 1, !.evidence_budget_nmax = 1],
      [SmallWindow EXCEPT !.graph_window_t_sec = 0, !.temporal_k = 2,
                          !.evidence_budget_nmax = 1, !.degree_threshold_dmax = 1,
                          !.dedup_case_insensitive = TRUE, !.score_b = 500],
      [SmallWindow EXCEPT !.theta_w = 500, !.decay_lambda = <<693>>,
                          !.temporal_k = 1] }

RecordInputs ==
    { [message |-> <<"a"," ","b">>, severity |-> 0, entities |-> {<<"a">>}],
      [message |-> <<"a"," "," ","b">>, severity |-> 2, entities |-> {<<"a">>, <<"b">>}],
      [message |-> <<" ","A"," ","b">>, severity |-> 0, entities |-> {<<"b">>}],
      [message |-> <<" ">>, severity |-> 0, entities |-> {}] }

Arrive ==
    /\ issued < MaxLogs
    /\ \E ts \in clock..Min(clock + 1, MaxTs), rec \in RecordInputs :
          /\ SetGraph(tick(cfg, add_log(cfg, GraphState, issued + 1, ts, rec.message,
                                        rec.entities, rec.severity), ts))
          /\ clock' = ts
          /\ last_op' = [op |-> "arrive", now |-> ts,
                         evicted |-> (DOMAIN logs) \ (DOMAIN logs'),
                         dropped |-> (DOMAIN entities) \ (DOMAIN entities')]
    /\ issued' = issued + 1
    /\ retr' = NoRetrieval
    /\ UNCHANGED <<cfg, counter_vars, burst_vars, pl, call>>

Retrieve ==
    /\ retr = NoRetrieval
    /\ \E target \in 1..issued :
          \E order \in Orders(cand_ids(cfg, GraphState, target)) :
              LET r == dual_path_retrieve(cfg, GraphState, target, order)
              IN retr' = [target |-> target, order |-> order, evidence |-> r.evidence,
                          ranked |-> r.ranked]
    /\ UNCHANGED <<graph_vars, counter_vars, burst_vars, pl, call>>

NextRetrieval == Arrive \/ Retrieve

InitRetrieval ==
    /\ InitGraph(RetrievalConfigs, FALSE)
    /\ InitCounter({0})
    /\ InitBurst({DefaultBurstParams})
    /\ retr = NoRetrieval
    /\ pl = NoPipeline
    /\ call = NoCall

SpecRetrieval == InitRetrieval /\ [][NextRetrieval]_vars

(***************************************************************************)
(* Retrieval and packaging at the limits of the options: theta_w = 1 and   *)
(* theta_w > 1, temporal_k = 0, degree_threshold_dmax = 0, and a threshold *)
(* of 2 under which an entity of three logs is a hub.                      *)
(***************************************************************************)
LimitConfigs ==
    { [SmallWindow EXCEPT !.theta_w = 1000, !.temporal_k = 0],
      [SmallWindow EXCEPT !.theta_w = 2000, !.temporal_k = 1,
                          !.degree_threshold_dmax = 0],
      [SmallWindow EXCEPT !.theta_w = 500, !.decay_lambda = <<693>>,
                          !.temporal_k = 1, !.degree_threshold_dmax = 2] }

InitRetrievalLimits ==
    /\ InitGraph(LimitConfigs, FALSE)
    /\ InitCounter({0})
    /\ InitBurst({DefaultBurstParams})
    /\ retr = NoRetrieval
    /\ pl = NoPipeline
    /\ call = NoCall

SpecRetrievalLimits == InitRetrievalLimits /\ [][NextRetrieval]_vars

(***************************************************************************)
(* Retrieval, packaging and prompt building for a target that has left the *)
(* graph: a window of one second, so that the third arrival can evict the   *)
(* first log.                                                               *)
(***************************************************************************)
EvictingConfigs ==
    { [SmallWindow EXCEPT !.graph_window_t_sec = 1, !.temporal_k = 1],
      [SmallWindow EXCEPT !.graph_window_t_sec = 1, !.theta_w = 500,
                          !.decay_lambda = <<693>>] }

InitRetrievalEvicting ==
    /\ InitGraph(EvictingConfigs, FALSE)
    /\ InitCounter({0})
    /\ InitBurst({DefaultBurstParams})
    /\ retr = NoRetrieval
    /\ pl = NoPipeline
    /\ call = NoCall

SpecRetrievalEvicting == InitRetrievalEvicting /\ [][NextRetrieval]_vars

(***************************************************************************)
(* Entity extraction (entity_extraction.py).                               *)
(***************************************************************************)
\* str.split(ch): the parts between the occurrences of ch.
RECURSIVE SplitOn(_, _, _)
SplitOn(s, ch, cur) ==
    IF s = <<>> THEN <<cur>>
    ELSE IF Head(s) = ch THEN <<cur>> \o SplitOn(Tail(s), ch, <<>>)
    ELSE SplitOn(Tail(s), ch, Append(cur, Head(s)))

IsDigitRun(part, lo, hi) ==
    /\ Len(part) >= lo /\ Len(part) <= hi
    /\ \A i \in DOMAIN part : IsDigit(part[i])

\* _IPV4_PORT.match(s): four groups of 1-3 digits and an optional port of 1-5
\* digits; "$" also matches before one final newline.  ip is group 'ip'.
ipv4_port_match(s) ==
    LET t == IF s # <<>> /\ s[Len(s)] = "\n" THEN SubSeq(s, 1, Len(s) - 1) ELSE s
        parts == SplitOn(t, ":", <<>>)
        groups == SplitOn(parts[1], ".", <<>>)
        ok == /\ Len(parts) <= 2
              /\ Len(groups) = 4
              /\ \A i \in DOMAIN groups : IsDigitRun(groups[i], 1, 3)
              /\ Len(parts) = 2 => IsDigitRun(parts[2], 1, 5)
    IN [matched |-> ok, ip |-> IF ok THEN parts[1] ELSE <<>>]

\* The one default token_drop_regex (config.py:43).  Its pattern text is
\* ^\\d{4}-\\d{2}-\\d{2}-\\d{2}\\.\\d{2}\\.\\d{2}\\.\\d+$ : every "\\" is a
\* literal backslash, so "d" is the letter d and "." any character but newline.
token_drop_prefix ==
    <<"\\","d","d","d","d","-","\\","d","d","-","\\","d","d","-","\\","d","d",
      "\\","ANY","\\","d","d","\\","ANY","\\","d","d","\\","ANY","\\">>

token_drop_regex_search(tok) ==
    LET t == IF tok # <<>> /\ tok[Len(tok)] = "\n" THEN SubSeq(tok, 1, Len(tok) - 1)
             ELSE tok
        n == Len(token_drop_prefix)
    IN /\ Len(t) > n
       /\ \A i \in 1..n : IF token_drop_prefix[i] = "ANY" THEN t[i] # "\n"
                          ELSE t[i] = token_drop_prefix[i]
       /\ \A i \in (n + 1)..Len(t) : t[i] = "d"

should_drop_token(tok) == tok = <<>> \/ token_drop_regex_search(tok)

\* Mutant of stat_entities: a token that only reaches the two thresholds is
\* accepted.
stat_entities_inclusive(c, counts, toks) ==
    LET considered == {t \in Range(toks) :
                          /\ t # <<>> /\ Len(t) >= c.min_token_len
                          /\ ~should_drop_token(t)}
        ips == {ipv4_port_match(t).ip : t \in {u \in considered : ipv4_port_match(u).matched}}
    IN {ip \in ips : ip # <<>> /\ ~is_blacklisted_entity(ip)}
       \cup {t \in considered :
                /\ ~is_blacklisted_entity(t)
                /\ token_complexity(t) >= c.theta_tc
                /\ rf(counts, t) >= c.theta_rf}

\* StatisticalEntityExtractor.extract, lines 116-133, after the push of line
\* 115: counts are the recurrence counts that include this log.
stat_entities(c, counts, toks) ==
    LET considered == {t \in Range(toks) :
                          /\ t # <<>> /\ Len(t) >= c.min_token_len
                          /\ ~should_drop_token(t)}
        ips == {ipv4_port_match(t).ip : t \in {u \in considered : ipv4_port_match(u).matched}}
    IN {ip \in ips : ip # <<>> /\ ~is_blacklisted_entity(ip)}
       \cup {t \in considered :
                /\ ~is_blacklisted_entity(t)
                /\ token_complexity(t) > c.theta_tc
                /\ rf(counts, t) > c.theta_rf}

\* _in_message_or_ip_port (lines 62-76).
in_message_or_ip_port(entity, message) ==
    LET e == Strip(entity)
        m == ipv4_port_match(e)
    IN /\ e # <<>>
       /\ \/ Contains(message, e)
          \/ /\ m.matched /\ m.ip # <<>>
             /\ Contains(message, m.ip) \/ Contains(message, Append(m.ip, ":"))

\* parse_semantic_validation_response, lines 100-103, applied to the keep and
\* add sets read from the response (already stripped and non-empty).
parse_semantic_validation_response(response, message) ==
    [keep |-> {e \in response.keep : in_message_or_ip_port(e, message)},
     add |-> {e \in response.add : in_message_or_ip_port(e, message)}]

\* Whether extract_entities calls the semantic extractor (lines 191-192).
semantic_called(c, estat) ==
    c.enable_semantic_channel /\ Cardinality(estat) < c.semantic_trigger_min_entities

\* extract_entities (lines 187-200), given the statistical entities and the
\* response of the semantic channel (used only when it is called).
extract_entities(c, estat, response, message) ==
    LET sem == IF semantic_called(c, estat)
               THEN parse_semantic_validation_response(response, message)
               ELSE [keep |-> {}, add |-> {}]
        validated == IF sem.keep # {} THEN sem.keep ELSE estat
    IN [estat |-> estat,
        estat_validated |-> {e \in validated : ~is_blacklisted_entity(e)},
        esem |-> sem.add,
        final |-> {e \in validated \cup sem.add : ~is_blacklisted_entity(e)}]

(***************************************************************************)
(* TriggerEngine.check (trigger.py:32-43).  st is the burst detector.      *)
(***************************************************************************)
\* Mutant of trigger_check: the burst detector is consulted before the
\* severity keywords.
trigger_check_burst_first(c, params, st, ts, message) ==
    LET key == mask_for_template_key(message)
        r == push_and_check(params, st, ts, key)
        sev == c.enable_severity_trigger
               /\ \E kw \in trigger_keywords : Contains(Lower(message), kw)
    IN IF c.enable_burst_trigger /\ r.fired
       THEN [triggered |-> TRUE, by |-> "burst", pushed |-> TRUE, key |-> key, st |-> r.st]
       ELSE IF sev
       THEN [triggered |-> TRUE, by |-> "severity", pushed |-> c.enable_burst_trigger,
             key |-> <<>>, st |-> IF c.enable_burst_trigger THEN r.st ELSE st]
       ELSE [triggered |-> FALSE, by |-> "none", pushed |-> c.enable_burst_trigger,
             key |-> IF c.enable_burst_trigger THEN key ELSE <<>>,
             st |-> IF c.enable_burst_trigger THEN r.st ELSE st]

\* Mutant of trigger_check: a record that fires the severity trigger is pushed
\* into the detector as well.
trigger_check_push_always(c, params, st, ts, message) ==
    IF c.enable_severity_trigger
       /\ \E kw \in trigger_keywords : Contains(Lower(message), kw)
    THEN [triggered |-> TRUE, by |-> "severity", pushed |-> FALSE, key |-> <<>>,
          st |-> IF c.enable_burst_trigger
                 THEN push_and_check(params, st, ts, mask_for_template_key(message)).st
                 ELSE st]
    ELSE IF c.enable_burst_trigger
    THEN LET key == mask_for_template_key(message)
             r == push_and_check(params, st, ts, key)
         IN [triggered |-> r.fired, by |-> IF r.fired THEN "burst" ELSE "none",
             pushed |-> TRUE, key |-> key, st |-> r.st]
    ELSE [triggered |-> FALSE, by |-> "none", pushed |-> FALSE, key |-> <<>>, st |-> st]

trigger_check(c, params, st, ts, message) ==
    IF c.enable_severity_trigger
       /\ \E kw \in trigger_keywords : Contains(Lower(message), kw)
    THEN [triggered |-> TRUE, by |-> "severity", pushed |-> FALSE, key |-> <<>>, st |-> st]
    ELSE IF c.enable_burst_trigger
    THEN LET key == mask_for_template_key(message)
             r == push_and_check(params, st, ts, key)
         IN [triggered |-> r.fired, by |-> IF r.fired THEN "burst" ELSE "none",
             pushed |-> TRUE, key |-> key, st |-> r.st]
    ELSE [triggered |-> FALSE, by |-> "none", pushed |-> FALSE, key |-> <<>>, st |-> st]

(***************************************************************************)
(* RecallPipeline.process (pipeline.py:47-84), one step per record.  The   *)
(* responses of the two external calls are inputs: the semantic channel    *)
(* answers with keep/add sets or raises, the decision call answers with a  *)
(* parsable verdict, an unparsable text, or raises (requests exceptions of *)
(* DeepSeekClient.chat, llm_client.py:57-58).                              *)
(***************************************************************************)
\* parse_decision (llm_client.py:78-97) on the two kinds of answer.
parse_decision(raw) ==
    IF raw = "anomaly"
    THEN [label |-> "ANOMALY", confidence |-> 900, evidence_ids |-> <<"L1">>,
          llm_error |-> <<>>]
    ELSE [label |-> "NORMAL", confidence |-> 0, evidence_ids |-> <<>>,
          llm_error |-> <<"unparseable">>]

\* Line 61: the decision of a record for which no decision call is made.
default_decision ==
    [label |-> "NORMAL", confidence |-> 0, evidence_ids |-> <<>>, llm_error |-> <<>>]

PipelineMessages ==
    { <<"f","a","t","a","l"," ","e","r","r","o","r"," ","o","n"," ","n","o","d","e","-","7">>,
      <<"p","i","n","g"," ","1","2","7",".","0",".","0",".","1">>,
      <<"r","e","t","r","y"," ","n","o","d","e","-","7","a">> }

SemanticResponses ==
    { [raised |-> TRUE, keep |-> {}, add |-> {}],
      [raised |-> FALSE,
       keep |-> {<<"1","2","7",".","0",".","0",".","1">>},
       add |-> {<<"1","2","7",".","0",".","0",".","1">>,
                <<"n","o","d","e","-","7">>,
                <<"g","h","o","s","t">>}] }

LlmAnswers == {"anomaly", "unparseable", "io_error"}

\* RecallPipeline.__init__ (lines 25-45): the configuration and enable_llm.
PipelineSetups ==
    { [cfg |-> DefaultConfig, enable_llm |-> TRUE],
      [cfg |-> [DefaultConfig EXCEPT !.enable_semantic_channel = TRUE],
       enable_llm |-> FALSE],
      [cfg |-> [DefaultConfig EXCEPT !.evidence_budget_nmax = 1], enable_llm |-> FALSE] }

InitPipeline ==
    /\ InitGraph({s.cfg : s \in PipelineSetups}, FALSE)
    /\ InitCounter({DefaultConfig.delta_t_sec})
    /\ InitBurst({DefaultBurstParams})
    /\ retr = NoRetrieval
    /\ pl \in {[NoPipeline EXCEPT !.status = "running", !.enable_llm = s.enable_llm] :
                  s \in {t \in PipelineSetups : t.cfg = cfg}}
    /\ call = NoCall

\* Lines 51-82 for one record.  sem is the semantic channel's behaviour and llm
\* the decision call's; each matters only when the call is made.  The conjuncts
\* follow the statements of the loop body, each reading the state its
\* predecessors left (the primed variables).
Process ==
    /\ pl.status = "running"
    /\ issued < MaxLogs
    /\ \E i \in 0..1, msg \in PipelineMessages :
       \E ts \in {Max(clock, 1000) + 50 * i}, log_id \in {issued + 1},
          toks \in {tokenize_for_entity_candidates(msg)} :
       \E rc \in {rc_push(rc_window_sec, [q |-> rc_q, counts |-> rc_counts], ts, toks)} :
          /\ rc_q' = rc.q
          /\ rc_counts' = rc.counts
          /\ rc_pushed' = Append(rc_pushed, [ts |-> ts, tokens |-> toks])
          /\ UNCHANGED <<cfg, rc_window_sec, bd_params, call>>
          /\ \E estat \in {stat_entities(cfg, rc_counts', toks)} :
                \E sem \in IF semantic_called(cfg, estat) THEN SemanticResponses
                           ELSE {[raised |-> FALSE, keep |-> {}, add |-> {}]} :
                IF sem.raised
                THEN /\ pl' = [pl EXCEPT !.status = "raised", !.sem = "io_error",
                                         !.llm = "none"]
                     /\ UNCHANGED <<step, logs, entities, log_to_entities, entity_to_logs,
                                    log_window, last_log_id, issued, clock, last_op,
                                    bd_q, bd_win_counts, bd_ema, bd_out, retr>>
                ELSE
                  \E ent \in {extract_entities(cfg, estat, sem, msg)},
                     trig \in {trigger_check(cfg, bd_params,
                                  [q |-> bd_q, win_counts |-> bd_win_counts, ema |-> bd_ema],
                                  ts, msg)} :
                     /\ SetGraph(tick(cfg, add_log(cfg, GraphState, log_id, ts, msg,
                                                   ent.final, severity_level(msg)), ts))
                     /\ clock' = ts
                     /\ issued' = log_id
                     /\ last_op' = [op |-> "process", now |-> ts,
                                    evicted |-> (DOMAIN logs) \ (DOMAIN logs'),
                                    dropped |-> (DOMAIN entities) \ (DOMAIN entities')]
                     /\ bd_q' = trig.st.q
                     /\ bd_win_counts' = trig.st.win_counts
                     /\ bd_ema' = trig.st.ema
                     /\ bd_out' = IF trig.pushed
                                  THEN [calls |-> bd_out.calls + 1, ts |-> ts,
                                        key |-> trig.key,
                                        first |-> trig.key # <<>>
                                                  /\ ~(trig.key \in DOMAIN bd_ema
                                                       /\ bd_ema[trig.key].initialized),
                                        fired |-> trig.triggered]
                                  ELSE bd_out
                     /\ IF trig.triggered
                        THEN \E order \in Orders(cand_ids(cfg, GraphState', log_id)) :
                                retr' = [target |-> log_id, order |-> order]
                                          @@ dual_path_retrieve(cfg, GraphState', log_id, order)
                        ELSE retr' = NoRetrieval
                     /\ \E llm \in IF trig.triggered /\ pl.enable_llm THEN LlmAnswers
                                   ELSE {"none"} :
                        IF trig.triggered
                           /\ \E pack \in {build_evidence_pack(cfg, GraphState', log_id,
                                                                retr'.evidence)} :
                                 \/ pack.raised
                                 \/ build_prompt(GraphState', log_id, pack).raised
                        THEN pl' = [pl EXCEPT !.status = "raised", !.llm = "none",
                                              !.sem = "none"]
                        ELSE IF llm = "io_error"
                        THEN pl' = [pl EXCEPT !.status = "raised", !.llm = llm,
                                              !.sem = "none"]
                        ELSE pl' = [pl EXCEPT
                               !.llm = llm, !.sem = "none",
                               !.preds = Append(pl.preds,
                                   [log_id |-> log_id, timestamp |-> ts, message |-> msg,
                                    triggered |-> trig.triggered, trigger_by |-> trig.by,
                                    severity |-> severity_level(msg),
                                    entities_stat |-> SortedStrings(ent.estat),
                                    entities_stat_validated |->
                                        SortedStrings(ent.estat_validated),
                                    entities_sem |-> SortedStrings(ent.esem),
                                    entities_final |-> SortedStrings(ent.final),
                                    prediction |-> IF llm = "none" THEN default_decision
                                                   ELSE parse_decision(llm),
                                    retrieval |->
                                        IF trig.triggered
                                        THEN <<[evidence_count |-> Len(retr'.evidence),
                                                evidence_log_ids |->
                                                    [j \in DOMAIN retr'.evidence |->
                                                        retr'.evidence[j].log_id]]>>
                                        ELSE <<>>,
                                    prompt_len |->
                                        IF trig.triggered
                                        THEN <<[len_of |-> "prompt",
                                                target_log_id |-> log_id]>>
                                        ELSE <<>>])]

\* Lines 83-84: the record list is exhausted and process returns the
\* predictions.
Return ==
    /\ pl.status = "running"
    /\ pl' = [pl EXCEPT !.status = "returned"]
    /\ UNCHANGED <<graph_vars, counter_vars, burst_vars, retr, call>>

NextPipeline == Process \/ Return

SpecPipeline == InitPipeline /\ [][NextPipeline]_vars

(***************************************************************************)
(* The pipeline with graph windows on the scale of the record spacing: 1    *)
(* and 50 seconds (records arrive 0 or 50 seconds apart, so earlier records *)
(* are evicted while a run goes on) and the values 0 and -5, which disable  *)
(* eviction.  The decision call is made under the window of 50 seconds.     *)
(***************************************************************************)
WindowSetups ==
    { [cfg |-> [DefaultConfig EXCEPT !.graph_window_t_sec = t], enable_llm |-> t = 50] :
        t \in {1, 50, 0, 0 - 5} }

InitPipelineWindows ==
    /\ InitGraph({s.cfg : s \in WindowSetups}, FALSE)
    /\ InitCounter({DefaultConfig.delta_t_sec})
    /\ InitBurst({DefaultBurstParams})
    /\ retr = NoRetrieval
    /\ pl \in {[NoPipeline EXCEPT !.status = "running", !.enable_llm = s.enable_llm] :
                  s \in {t \in WindowSetups : t.cfg = cfg}}
    /\ call = NoCall

SpecPipelineWindows == InitPipelineWindows /\ [][NextPipeline]_vars

(***************************************************************************)
(* TriggerEngine.check called on a stream of messages: two with a trigger  *)
(* keyword (one in upper case) and two without, each pair with one         *)
(* template key, under the four settings of the two enable flags.          *)
(***************************************************************************)
TriggerConfigs ==
    { [DefaultConfig EXCEPT !.enable_severity_trigger = sev,
                            !.enable_burst_trigger = burst] :
        sev \in BOOLEAN, burst \in BOOLEAN }

TriggerMessages ==
    { <<"F","A","T","A","L"," ","1">>,
      <<"f","a","t","a","l"," ","2">>,
      <<"p","i","n","g"," ","1">>,
      <<"p","i","n","g"," ","2">> }

\* TriggerEngine.__init__ (trigger.py:28-30): a fresh detector.
InitTrigger ==
    /\ InitGraph(TriggerConfigs, FALSE)
    /\ InitCounter({0})
    /\ InitBurst({DefaultBurstParams})
    /\ retr = NoRetrieval
    /\ pl = NoPipeline
    /\ call = [fn |-> "check", n |-> 0, arg |-> [ts_sec |-> 0, message |-> <<>>],
               result |-> <<>>]

\* One call of TriggerEngine.check (trigger.py:32-43).
Check ==
    /\ call.fn = "check"
    /\ call.n < MaxLogs
    /\ \E ts \in call.arg.ts_sec..Min(call.arg.ts_sec + 1, MaxTs),
          message \in TriggerMessages :
       \E trig \in {trigger_check(cfg, bd_params,
                        [q |-> bd_q, win_counts |-> bd_win_counts, ema |-> bd_ema],
                        ts, message)} :
          /\ call' = [fn |-> "check", n |-> call.n + 1,
                      arg |-> [ts_sec |-> ts, message |-> message],
                      result |-> <<[triggered |-> trig.triggered, by |-> trig.by,
                                    template_key |-> IF trig.pushed THEN <<trig.key>>
                                                     ELSE <<>>]>>]
          /\ bd_q' = trig.st.q
          /\ bd_win_counts' = trig.st.win_counts
          /\ bd_ema' = trig.st.ema
          /\ bd_out' = IF trig.pushed
                       THEN [calls |-> bd_out.calls + 1, ts |-> ts, key |-> trig.key,
                             first |-> trig.key # <<>>
                                       /\ ~(trig.key \in DOMAIN bd_ema
                                            /\ bd_ema[trig.key].initialized),
                             fired |-> trig.triggered]
                       ELSE bd_out
    /\ UNCHANGED <<graph_vars, counter_vars, bd_params, retr, pl>>

SpecTrigger == InitTrigger /\ [][Check]_vars

(***************************************************************************)
(* StatisticalEntityExtractor.extract called on a stream of messages with   *)
(* non-decreasing timestamps: a token of complexity 3, an ip:port token and *)
(* a plain word, under windows of 1 and 2 seconds and, with the window      *)
(* disabled, under theta_rf = 1 and theta_tc = 3.                           *)
(***************************************************************************)
MaxExtracts == 4

ExtractConfigs ==
    { [DefaultConfig EXCEPT !.delta_t_sec = 1],
      [DefaultConfig EXCEPT !.delta_t_sec = 2],
      [DefaultConfig EXCEPT !.delta_t_sec = 0, !.theta_rf = 1, !.theta_tc = 3] }

ExtractMessages ==
    { <<"a","1","-","b">>,
      <<"a","1","-","b"," ","1",".","2",".","3",".","4",":","5">>,
      <<"a","b">> }

\* StatisticalEntityExtractor.__init__ (entity_extraction.py:108-110).
InitExtract ==
    /\ InitGraph(ExtractConfigs, FALSE)
    /\ InitCounter({cfg.delta_t_sec})
    /\ InitBurst({DefaultBurstParams})
    /\ retr = NoRetrieval
    /\ pl = NoPipeline
    /\ call = [fn |-> "extract", n |-> 0, arg |-> [ts_sec |-> 0, message |-> <<>>],
               result |-> <<>>]

\* One call of extract (lines 112-133); result collects the returned sets.
Extract ==
    /\ call.fn = "extract"
    /\ call.n < MaxExtracts
    /\ \E ts \in call.arg.ts_sec..Min(call.arg.ts_sec + 2, MaxTs),
          message \in ExtractMessages :
       \E toks \in {tokenize_for_entity_candidates(message)} :
       \E rc \in {rc_push(rc_window_sec, [q |-> rc_q, counts |-> rc_counts], ts, toks)} :
          /\ rc_q' = rc.q
          /\ rc_counts' = rc.counts
          /\ rc_pushed' = Append(rc_pushed, [ts |-> ts, tokens |-> toks])
          /\ call' = [fn |-> "extract", n |-> call.n + 1,
                      arg |-> [ts_sec |-> ts, message |-> message],
                      result |-> Append(call.result, stat_entities(cfg, rc.counts, toks))]
    /\ UNCHANGED <<graph_vars, rc_window_sec, burst_vars, retr, pl>>

SpecExtract == InitExtract /\ [][Extract]_vars

(***************************************************************************)
(* mask_for_template_key as a function of its argument: every message over *)
(* a small alphabet (digits, the letters of a hex literal, a letter that is *)
(* no hex digit in upper case, a space), masked and then masked again.      *)
(***************************************************************************)
MaxMaskLen == 4

MaskAlphabet == {"0", "7", "x", "f", "G", " "}

MaskInputs == UNION {[1..n -> MaskAlphabet] : n \in 0..MaxMaskLen}

InitMask ==
    /\ InitGraph({DefaultConfig}, FALSE)
    /\ InitCounter({0})
    /\ InitBurst({DefaultBurstParams})
    /\ retr = NoRetrieval
    /\ pl = NoPipeline
    /\ call \in {[fn |-> "mask_for_template_key", n |-> 0, arg |-> m, result |-> <<>>] :
                    m \in MaskInputs}

\* The first call masks the message, the second call masks the first result.
MaskKey ==
    /\ call.fn = "mask_for_template_key"
    /\ call.n < 2
    /\ \E a \in {IF call.n = 0 THEN call.arg ELSE call.result[1]} :
          call' = [call EXCEPT !.n = call.n + 1, !.arg = a,
                               !.result = <<mask_for_template_key(a)>>]
    /\ UNCHANGED <<graph_vars, counter_vars, burst_vars, retr, pl>>

SpecMask == InitMask /\ [][MaskKey]_vars

(***************************************************************************)
(* Claims about the graph.                                                 *)
(***************************************************************************)
LogRefs(e) == IF e \in DOMAIN entity_to_logs THEN Range(entity_to_logs[e]) ELSE {}

StoredEntities ==
    (DOMAIN entities) \cup (DOMAIN entity_to_logs)
        \cup UNION {log_to_entities[l] : l \in DOMAIN log_to_entities}

\* C1: incidence is symmetric: for every resident log l and every entity e,
\* e is in log_to_entities[l] if and only if l occurs in entity_to_logs[e];
\* this holds after every add_log and every tick (eviction, edge pruning, sweep).
C1_IncidenceSymmetric ==
    \A l \in DOMAIN logs :
        /\ l \in DOMAIN log_to_entities
        /\ \A e \in StoredEntities : (e \in log_to_entities[l]) <=> (l \in LogRefs(e))

\* C1 witness: a tick deleted logs and entities, and incidences remain.
C1_Witness ==
    /\ last_op.op = "tick"
    /\ last_op.evicted # {}
    /\ last_op.dropped # {}
    /\ \E l \in DOMAIN logs : log_to_entities[l] # {}

\* C2: no blacklisted (or empty) entity is a key of entities or entity_to_logs
\* or a member of any log_to_entities set, whatever was passed to add_log.
C2_NoBlacklistedEntity ==
    \A e \in StoredEntities : ~is_blacklisted_entity(e)

\* C2 witness: add_log was given the iterable {" a ", "b", "/tmp", ""} and the
\* one with " ::1" and " ": only the stripped, non-blacklisted values are stored.
C2_Witness ==
    /\ \E l \in DOMAIN log_to_entities : log_to_entities[l] = {<<"a">>, <<"b">>}
    /\ \E l \in DOMAIN log_to_entities : log_to_entities[l] = {<<"b">>}

\* C3 (as stated): immediately after tick(now) every resident log has
\* ts_sec >= now - graph_window_t_sec.
C3_WindowAfterTick_Original ==
    last_op.op = "tick" =>
        \A l \in DOMAIN logs : logs[l].ts_sec >= last_op.now - cfg.graph_window_t_sec

\* C3 (amended): when graph_window_t_sec > 0, immediately after tick(now) every
\* resident log has ts_sec >= now - graph_window_t_sec.
C3_WindowAfterTick ==
    (cfg.graph_window_t_sec > 0 /\ last_op.op = "tick") =>
        \A l \in DOMAIN logs : logs[l].ts_sec >= last_op.now - cfg.graph_window_t_sec

\* C3 witness: a tick evicted a log and kept one whose age is exactly the window.
C3_Witness ==
    /\ cfg.graph_window_t_sec > 0
    /\ last_op.op = "tick"
    /\ last_op.evicted # {}
    /\ \E l \in DOMAIN logs : logs[l].ts_sec = last_op.now - cfg.graph_window_t_sec

\* The resident log ids in arrival order (ids are issued in increasing order).
RECURSIVE Ascending(_)
Ascending(S) ==
    IF S = {} THEN <<>>
    ELSE LET m == CHOOSE x \in S : \A y \in S : x <= y
         IN <<m>> \o Ascending(S \ {m})

\* The logs met by following next_log_id from l, for at most fuel hops.
RECURSIVE NextWalk(_, _)
NextWalk(l, fuel) ==
    IF l = None \/ l \notin DOMAIN logs \/ fuel = 0 THEN <<>>
    ELSE <<l>> \o NextWalk(logs[l].next_log_id, fuel - 1)

ChainAcyclicForward ==
    \A l \in DOMAIN logs :
        /\ logs[l].next_log_id # None =>
              logs[l].next_log_id \in DOMAIN logs /\ logs[l].next_log_id > l
        /\ logs[l].prev_log_id # None =>
              logs[l].prev_log_id \in DOMAIN logs /\ logs[l].prev_log_id < l

ChainVisitsAll ==
    logs # <<>> =>
        NextWalk(Ascending(DOMAIN logs)[1], Cardinality(DOMAIN logs) + 1)
            = Ascending(DOMAIN logs)

\* C4 (as stated): in every reachable state the prev/next chain is acyclic and
\* following next from the oldest resident log visits every resident log exactly
\* once, in arrival order, for any configured decay_lambda.
C4_ChainVisitsAll_Original == ChainAcyclicForward /\ ChainVisitsAll

\* C4 (amended): the chain is always acyclic (next leads to a later resident log,
\* prev to an earlier one); when decay_lambda is unset, following next from the
\* oldest resident log visits every resident log exactly once, in arrival order.
C4_Chain ==
    /\ ChainAcyclicForward
    /\ cfg.decay_lambda = <<>> => ChainVisitsAll

\* C4 witness: decay_lambda unset, a tick evicted the head of the chain and two
\* or more logs remain linked.
C4_Witness ==
    /\ cfg.decay_lambda = <<>>
    /\ cfg.theta_w < 1000
    /\ last_op.op = "tick"
    /\ last_op.evicted # {}
    /\ Cardinality(DOMAIN logs) >= 2

\* C5: an entity is in entities exactly when entity_to_logs holds a non-empty
\* list for it, and that list names at least one resident log.
C5_EntityHasLog ==
    /\ DOMAIN entities = DOMAIN entity_to_logs
    /\ \A e \in DOMAIN entity_to_logs :
          /\ entity_to_logs[e] # <<>>
          /\ \E l \in Range(entity_to_logs[e]) : l \in DOMAIN logs

\* C5 witness: a tick removed the last reference of an entity (by eviction or by
\* edge pruning, not by the activity sweep) while another entity stays.
C5_Witness ==
    /\ last_op.op = "tick"
    /\ last_op.dropped # {}
    /\ step % SweepPeriod # 0
    /\ entities # <<>>

(***************************************************************************)
(* Claims about the recurrence counter and the burst detector.             *)
(***************************************************************************)
SeenTokens == { <<"a">>, <<"b">>, <<"c">> }

\* The pushed logs inside the window of the latest push whose tokens contain t.
LogsInWindowWith(t) ==
    LET now == rc_pushed[Len(rc_pushed)].ts
    IN {i \in DOMAIN rc_pushed :
          /\ rc_pushed[i].ts >= now - rc_window_sec
          /\ \E j \in DOMAIN rc_pushed[i].tokens : rc_pushed[i].tokens[j] = t}

\* C6: with window > 0 and non-decreasing timestamps, rf(t) is the number of
\* pushed logs with ts >= now - window whose tokens contain t (a token repeated
\* in one log counts once), and no stored count is zero or negative.
C6_RfCountsLogsInWindow ==
    (rc_window_sec > 0 /\ rc_pushed # <<>>) =>
        /\ \A t \in SeenTokens : rf(rc_counts, t) = Cardinality(LogsInWindowWith(t))
        /\ \A t \in DOMAIN rc_counts : rc_counts[t] > 0

\* C6 witness: entries were evicted, the latest log repeats a token, and that
\* token is still counted for an earlier log in the window.
C6_Witness ==
    /\ rc_window_sec > 0
    /\ Len(rc_q) < Len(rc_pushed)
    /\ rc_pushed[Len(rc_pushed)].tokens = <<<<"a">>, <<"a">>>>
    /\ rf(rc_counts, <<"a">>) = 2

\* C7: push_and_check never returns true on the call that initializes the EMA
\* of its template key.
C7_NoBurstOnFirstObservation == bd_out.first => ~bd_out.fired

\* C7 witness: a first observation of a key after another key was pushed and a
\* burst was possible for this detector (window count above 1 for the other key).
C7_Witness ==
    /\ bd_out.first
    /\ \E k \in DOMAIN bd_win_counts : k # bd_out.key /\ bd_win_counts[k] >= 2

(***************************************************************************)
(* Claims about dual_path_retrieve.                                        *)
(***************************************************************************)
DedupKey(item) == normalize_message_for_dedup(item.message, cfg.dedup_case_insensitive)

\* C8: in a returned evidence list no two items have the same
\* normalize_message_for_dedup key and no item has an empty normalized message.
C8_EvidenceDeduplicated ==
    /\ \A i, j \in DOMAIN retr.evidence :
          i # j => DedupKey(retr.evidence[i]) # DedupKey(retr.evidence[j])
    /\ \A i \in DOMAIN retr.evidence : DedupKey(retr.evidence[i]) # <<>>

\* C8 witness: the target had two candidates and one item is returned; the
\* dropped candidate's message differs from the returned one only in spacing or
\* case.
C8_Witness ==
    /\ Len(retr.evidence) = 1
    /\ Cardinality(cand_ids(cfg, GraphState, retr.target)) = 2
    /\ \E l \in cand_ids(cfg, GraphState, retr.target) :
          /\ retr.evidence[1].log_id # l
          /\ logs[l].message # retr.evidence[1].message
          /\ normalize_message_for_dedup(logs[l].message, cfg.dedup_case_insensitive)
                = DedupKey(retr.evidence[1])

\* C9: the returned list is the first n_max elements of the deduplicated
\* candidates in (score descending, ts_sec descending) order: at most
\* evidence_budget_nmax items, sorted, and no omitted deduplicated candidate
\* ranks strictly before a returned one.
C9_TopNmaxSorted ==
    /\ Len(retr.evidence) <= cfg.evidence_budget_nmax
    /\ Len(retr.evidence) = Min(Len(retr.ranked), cfg.evidence_budget_nmax)
    /\ \A i, j \in DOMAIN retr.evidence :
          i < j => ~sorts_before(retr.evidence[j], retr.evidence[i])
    /\ \A i \in DOMAIN retr.evidence : \E j \in DOMAIN retr.ranked :
          retr.ranked[j] = retr.evidence[i]
    /\ \A j \in DOMAIN retr.ranked :
          (\A i \in DOMAIN retr.evidence : retr.evidence[i] # retr.ranked[j]) =>
              \A i \in DOMAIN retr.evidence :
                  ~sorts_before(retr.ranked[j], retr.evidence[i])

\* C9 witness: two deduplicated candidates have equal scores and different
\* timestamps, and the budget of one item keeps the later one.
C9_Witness ==
    /\ Len(retr.ranked) = 2
    /\ Len(retr.evidence) = 1
    /\ retr.ranked[1].score = retr.ranked[2].score
    /\ retr.ranked[1].ts_sec > retr.ranked[2].ts_sec
    /\ retr.evidence[1] = retr.ranked[1]

\* C10: every returned item has dist >= 1 and 0 <= edge_weight <= 1.
C10_DistAndWeightRange ==
    \A i \in DOMAIN retr.evidence :
        /\ retr.evidence[i].dist >= 1
        /\ retr.evidence[i].edge_weight >= 0
        /\ retr.evidence[i].edge_weight <= 1000

\* C10 witness: two items are returned under a positive decay rate: a
\* structural one at distance 2 whose weight lies strictly between 0 and 1, and
\* a temporal neighbour at distance 1.
C10_Witness ==
    /\ Lambda(cfg).num > 0
    /\ Len(retr.evidence) = 2
    /\ \E i \in DOMAIN retr.evidence :
          /\ retr.evidence[i].dist = 2
          /\ retr.evidence[i].edge_weight > 0
          /\ retr.evidence[i].edge_weight < 1000
    /\ \E i \in DOMAIN retr.evidence : retr.evidence[i].dist = 1

(***************************************************************************)
(* Claims about the temporal weight of a candidate.                        *)
(***************************************************************************)
\* The prev/next chain from log a forward to log b: the minimum of
\* temporal_edge_weight over its links, or None when b is not reached from a.
RECURSIVE LinkMin(_, _, _, _, _)
LinkMin(a, b, now_ts, w_min, fuel) ==
    IF a = b THEN w_min
    ELSE IF fuel = 0 \/ a \notin DOMAIN logs THEN None
    ELSE IF logs[a].next_log_id = None THEN None
    ELSE LinkMin(logs[a].next_log_id, b, now_ts,
                 Min(w_min, temporal_edge_weight(cfg, GraphState, a,
                                                 logs[a].next_log_id, now_ts)),
                 fuel - 1)

\* The minimum over the links of the chain between the target and lid, in
\* whichever direction lid lies; 0 when lid is reachable in neither.
ChainMinWeight(target, lid) ==
    LET now_ts == logs[target].ts_sec
        after == LinkMin(target, lid, now_ts, 1000, MaxLogs)
        before == LinkMin(lid, target, now_ts, 1000, MaxLogs)
    IN IF after # None THEN after ELSE IF before # None THEN before ELSE 0

\* C11: for every temporal candidate of the target of a retrieval, the temporal
\* weight used in scoring is the minimum of temporal_edge_weight over the chain
\* links between the target and the candidate, before or after the target, and
\* it is 0 only when the candidate is reachable in neither direction.
C11_TemporalWeightIsChainMin ==
    retr.target \in DOMAIN logs =>
        \A lid \in DOMAIN cand_dist_time(cfg, GraphState, retr.target) :
            LET w == temporal_path_min_edge_weight(cfg, GraphState, retr.target, lid,
                                                   logs[retr.target].ts_sec)
            IN /\ w = ChainMinWeight(retr.target, lid)
               /\ w = 0 => /\ LinkMin(retr.target, lid, 0, 1000, MaxLogs) = None
                           /\ LinkMin(lid, retr.target, 0, 1000, MaxLogs) = None

\* C11 as the code behaves: candidates after the target get the chain minimum,
\* candidates before the target get 0.
C11_LaterCandidatesOnly ==
    retr.target \in DOMAIN logs =>
        \A lid \in DOMAIN cand_dist_time(cfg, GraphState, retr.target) :
            LET w == temporal_path_min_edge_weight(cfg, GraphState, retr.target, lid,
                                                   logs[retr.target].ts_sec)
            IN IF LinkMin(retr.target, lid, 0, 1000, MaxLogs) # None
               THEN w = ChainMinWeight(retr.target, lid)
               ELSE w = 0

\* C11 witness: a retrieval whose target has a temporal candidate before it and
\* one after it.
C11_Witness ==
    /\ retr.target \in DOMAIN logs
    /\ \E l1, l2 \in DOMAIN cand_dist_time(cfg, GraphState, retr.target) :
          /\ LinkMin(l1, retr.target, 0, 1000, MaxLogs) # None
          /\ LinkMin(retr.target, l2, 0, 1000, MaxLogs) # None

(***************************************************************************)
(* Claims about repeated ticks.                                            *)
(***************************************************************************)
\* C13: from every reachable graph state and for every time now, a second
\* tick(now) leaves logs, entities, both incidence maps, the chain pointers, the
\* window queue, last_log_id and step as the first tick(now) left them.
C13_TickIdempotent ==
    \A now \in 0..MaxTs :
        LET g1 == tick(cfg, GraphState, now)
        IN tick(cfg, g1, now) = g1

\* C13 witness: a tick has just evicted two logs and dropped an entity, and
\* ticking again at the same time changes nothing.
C13_Witness ==
    /\ last_op.op = "tick"
    /\ Cardinality(last_op.evicted) >= 2
    /\ last_op.dropped # {}
    /\ logs # <<>>
    /\ tick(cfg, GraphState, last_op.now) = GraphState

(***************************************************************************)
(* Claims about the GraphPack edges and the two candidate paths.           *)
(***************************************************************************)
Pack == build_evidence_pack(cfg, GraphState, retr.target, retr.evidence)

\* C14 as stated: when theta_w >= 1 (theta_w exactly 1 included) the pack of a
\* retrieval has no edges, neither struct nor time.
C14_NoEdgesAtThetaAtLeastOne_Original ==
    (retr.target \in DOMAIN logs /\ cfg.theta_w >= 1000) => Pack.edges = <<>>

\* C14 amended: when theta_w > 1 the pack has no edges; for every theta_w each
\* emitted edge has a weight >= theta_w, so with theta_w = 1 exactly the edges of
\* weight 1 are emitted.
C14_NoEdgesAboveOne ==
    retr.target \in DOMAIN logs =>
        /\ cfg.theta_w > 1000 => Pack.edges = <<>>
        /\ \A i \in DOMAIN Pack.edges : Pack.edges[i].weight >= cfg.theta_w
        /\ cfg.theta_w = 1000 =>
              \A lid \in Range(ordered_log_ids(retr.target, retr.evidence)) :
                 \A e \in get_entities_for_log(GraphState, lid) :
                    structural_edge_weight(cfg, GraphState, lid, e,
                                           logs[retr.target].ts_sec) = 1000
                    => \E i \in DOMAIN Pack.edges :
                          /\ Pack.edges[i].type = "struct"
                          /\ Pack.edges[i].source
                                = id_map_logs(retr.target, retr.evidence, lid)

\* C14 witness: theta_w > 1, the target and an evidence log that is its chain
\* successor share an entity, and the pack has no edge.
C14_Witness ==
    /\ cfg.theta_w > 1000
    /\ retr.target \in DOMAIN logs
    /\ \E i \in DOMAIN retr.evidence :
          /\ logs[retr.target].next_log_id = retr.evidence[i].log_id
          /\ get_entities_for_log(GraphState, retr.target)
                \cap get_entities_for_log(GraphState, retr.evidence[i].log_id) # {}
    /\ Pack.edges = <<>>

\* The log n hops from lid along next (forward) or prev, None past the end.
RECURSIVE Hop(_, _, _)
Hop(lid, n, forward) ==
    IF n = 0 THEN lid
    ELSE IF lid \notin DOMAIN logs THEN None
    ELSE Hop(IF forward THEN logs[lid].next_log_id ELSE logs[lid].prev_log_id,
             n - 1, forward)

WithinHops(target, lid, k) ==
    \E n \in 1..k : Hop(target, n, TRUE) = lid \/ Hop(target, n, FALSE) = lid

\* C15: a returned item has 'time' in paths, and a time_offset equal to its
\* timestamp minus the target's, exactly when it lies within temporal_k prev or
\* next hops of the target; with temporal_k = 0 no item has 'time' or a
\* time_offset, so every returned item is a structural candidate.
C15_TimePathWithinK ==
    /\ retr.target \in DOMAIN logs =>
          DOMAIN cand_dist_time(cfg, GraphState, retr.target)
              = {l \in DOMAIN logs : WithinHops(retr.target, l, cfg.temporal_k)}
    /\ \A i \in DOMAIN retr.evidence :
        LET it == retr.evidence[i]
            near == WithinHops(retr.target, it.log_id, cfg.temporal_k)
        IN /\ ("time" \in it.paths) <=> near
           /\ near => it.time_offset = <<it.ts_sec - logs[retr.target].ts_sec>>
           /\ ~near => it.time_offset = <<>>
           /\ cfg.temporal_k = 0 => it.paths = {"struct"} /\ it.time_offset = <<>>

\* C15 witness: with temporal_k = 1 the evidence holds the chain neighbour of
\* the target and a log two hops away that came by the structural path only.
C15_Witness ==
    /\ cfg.temporal_k = 1
    /\ \E i, j \in DOMAIN retr.evidence :
          /\ "time" \in retr.evidence[i].paths
          /\ retr.evidence[i].time_offset # <<0>>
          /\ retr.evidence[j].paths = {"struct"}
          /\ WithinHops(retr.target, retr.evidence[j].log_id, 2)

\* The entities a log shares with the target that are not hubs.
SharedNonHub(target, lid) ==
    {e \in get_entities_for_log(GraphState, target)
              \cap get_entities_for_log(GraphState, lid) :
        entity_degree(GraphState, e) <= cfg.degree_threshold_dmax}

\* C16: a returned item has 'struct' in paths exactly when it is another
\* resident log that shares with the target an entity of degree <=
\* degree_threshold_dmax; shared_entities is the sorted list of exactly those
\* entities; with degree_threshold_dmax = 0 no item has 'struct'.
C16_StructPathNonHub ==
    /\ retr.target \in DOMAIN logs =>
          DOMAIN cand_dist_struct(cfg, GraphState, retr.target)
              = {l \in (DOMAIN logs) \ {retr.target} : SharedNonHub(retr.target, l) # {}}
    /\ \A i \in DOMAIN retr.evidence :
        LET it == retr.evidence[i]
            sh == SharedNonHub(retr.target, it.log_id)
        IN /\ it.log_id # retr.target /\ it.log_id \in DOMAIN logs
           /\ ("struct" \in it.paths) <=> sh # {}
           /\ Range(it.shared_entities) = sh
           /\ Len(it.shared_entities) = Cardinality(sh)
           /\ \A a, b \in DOMAIN it.shared_entities :
                 a < b => StrLess(it.shared_entities[a], it.shared_entities[b])
           /\ cfg.degree_threshold_dmax = 0 => "struct" \notin it.paths

\* C16 witness: with threshold 2, an item came by the structural path through
\* an entity of degree 2 although it shares a hub of degree 3 with the target
\* as well.
C16_Witness ==
    /\ cfg.degree_threshold_dmax = 2
    /\ \E i \in DOMAIN retr.evidence :
          /\ "struct" \in retr.evidence[i].paths
          /\ \E e \in get_entities_for_log(GraphState, retr.target)
                       \cap get_entities_for_log(GraphState, retr.evidence[i].log_id) :
                /\ entity_degree(GraphState, e) = 3
                /\ e \notin Range(retr.evidence[i].shared_entities)
          /\ \E e \in Range(retr.evidence[i].shared_entities) :
                entity_degree(GraphState, e) = 2

(***************************************************************************)
(* Claims about which candidate the dedup keeps.                           *)
(***************************************************************************)
LogKey(lid) == normalize_message_for_dedup(logs[lid].message, cfg.dedup_case_insensitive)

\* The candidates of the retrieval that have the same normalized message as lid.
KeyGroup(lid) ==
    {x \in cand_ids(cfg, GraphState, retr.target) : LogKey(x) = LogKey(lid)}

\* The member of a group with the largest ts_sec, on equal ts_sec the one that
\* comes first in the iteration order of the retrieval.
GroupBest(grp) ==
    CHOOSE x \in grp : \A y \in grp \ {x} :
        \/ logs[x].ts_sec > logs[y].ts_sec
        \/ /\ logs[x].ts_sec = logs[y].ts_sec
           /\ IndexOf(retr.order, x) < IndexOf(retr.order, y)

RankedIds == {retr.ranked[i].log_id : i \in DOMAIN retr.ranked}

\* C19: the dedup keeps, for each group of candidates with the same normalized
\* message, the candidate with the largest ts_sec, on equal ts_sec the one
\* encountered first; when all resident logs share one message and the target is
\* the newest log (temporal_k >= 1, as in S2), the evidence has at most one item
\* and its timestamp is the latest among the earlier resident logs.
C19_DedupKeepsLatest ==
    retr.target \in DOMAIN logs =>
        /\ \A l \in cand_ids(cfg, GraphState, retr.target) :
              LogKey(l) # <<>> => RankedIds \cap KeyGroup(l) = {GroupBest(KeyGroup(l))}
        /\ \A l \in RankedIds :
              l \in cand_ids(cfg, GraphState, retr.target) /\ LogKey(l) # <<>>
        /\ \A i \in DOMAIN retr.evidence : retr.evidence[i].log_id \in RankedIds
        /\ ( /\ retr.target = last_log_id
             /\ cfg.temporal_k >= 1
             /\ \A l \in DOMAIN logs : LogKey(l) = LogKey(retr.target) )
           => /\ Len(retr.evidence) <= 1
              /\ \A i \in DOMAIN retr.evidence : \A l \in (DOMAIN logs) \ {retr.target} :
                    retr.evidence[i].ts_sec >= logs[l].ts_sec

\* C19 witness: three resident logs share one normalized message, the target is
\* the newest, its two candidates have the same timestamp, and the one kept is
\* the one encountered first although it is not the target's predecessor.
C19_Witness ==
    /\ retr.target = last_log_id
    /\ Cardinality(DOMAIN logs) = 3
    /\ \A l \in DOMAIN logs : LogKey(l) = LogKey(retr.target) /\ LogKey(l) # <<>>
    /\ Len(retr.order) = 2
    /\ logs[retr.order[1]].ts_sec = logs[retr.order[2]].ts_sec
    /\ Len(retr.evidence) = 1
    /\ retr.evidence[1].log_id = retr.order[1]
    /\ retr.evidence[1].log_id # logs[retr.target].prev_log_id

(***************************************************************************)
(* Claims about RecallPipeline.process.                                    *)
(***************************************************************************)
Emitted == Range(pl.preds)

LastPred == pl.preds[Len(pl.preds)]

\* C12 as stated: when the decision call of a triggered record fails with an
\* I/O error, process does not abort: the record is emitted with label NORMAL,
\* confidence 0 and the error in prediction.llm_error, and the stream goes on.
C12_IoErrorDoesNotAbort ==
    pl.llm = "io_error" =>
        /\ pl.status # "raised"
        /\ Len(pl.preds) = issued
        /\ LastPred.log_id = issued
        /\ LastPred.prediction.label = "NORMAL"
        /\ LastPred.prediction.confidence = 0
        /\ LastPred.prediction.llm_error # <<>>

\* What the code does instead: the exception leaves process; the record whose
\* decision call failed is in the graph but has no prediction.
C12_IoErrorAborts ==
    pl.llm = "io_error" =>
        /\ pl.status = "raised"
        /\ Len(pl.preds) = issued - 1
        /\ issued \in DOMAIN logs
        /\ retr.target = issued

C12_Witness ==
    /\ pl.llm = "io_error"
    /\ pl.status = "raised"
    /\ issued = 2
    /\ Len(pl.preds) = 1

Node7 == <<"n","o","d","e","-","7">>

FatalOnNode7 ==
    <<"f","a","t","a","l"," ","e","r","r","o","r"," ","o","n"," ","n","o","d","e","-","7">>

\* The state right after a severity-triggered record whose predecessor in the
\* stream is still resident.
SeverityTriggeredAfterPredecessor ==
    /\ pl.status = "running"
    /\ pl.preds # <<>>
    /\ LastPred.trigger_by = "severity"
    /\ retr.target = LastPred.log_id
    /\ cfg.temporal_k >= 1
    /\ cfg.evidence_budget_nmax >= 1
    /\ (retr.target - 1) \in DOMAIN logs
    /\ Strip(logs[retr.target - 1].message) # <<>>

PredecessorItems == {it \in Range(retr.evidence) : it.log_id = retr.target - 1}

PredecessorItemOk(it) ==
    /\ it.dist = 1
    /\ "time" \in it.paths
    /\ it.time_offset = <<logs[retr.target - 1].ts_sec - logs[retr.target].ts_sec>>
    /\ (log_to_entities[retr.target] \cap log_to_entities[retr.target - 1] = {})
           => it.paths = {"time"}

\* C17 as stated: after a severity-triggered record whose predecessor is still
\* resident with a non-empty message (temporal_k >= 1, n_max >= 1), the evidence
\* contains the predecessor with dist 1, 'time' in paths and time_offset =
\* first.ts - second.ts, and paths = {time} when the two share no entity.
C17_PredecessorInEvidence_Original ==
    SeverityTriggeredAfterPredecessor =>
        \E it \in PredecessorItems : PredecessorItemOk(it)

\* Another candidate that can take the predecessor's place in its dedup group:
\* same normalized message and a timestamp that is not smaller.
PredecessorRival(lid) ==
    /\ lid \in Range(retr.order)
    /\ lid # retr.target - 1
    /\ LogKey(lid) = LogKey(retr.target - 1)
    /\ logs[lid].ts_sec >= logs[retr.target - 1].ts_sec

\* C17: in that situation, every evidence item of the predecessor has dist 1,
\* 'time' in paths, time_offset = first.ts - second.ts (and paths = {time}
\* without a shared entity); there is at most one, and there is one when no
\* other candidate has the same normalized message with a timestamp at least
\* the predecessor's and the deduplicated candidates fit the budget n_max.
\* In the two-record stream S3 both conditions hold.
C17_PredecessorEvidence ==
    SeverityTriggeredAfterPredecessor =>
        /\ \A it \in PredecessorItems : PredecessorItemOk(it)
        /\ Cardinality(PredecessorItems) <= 1
        /\ ((\A lid \in DOMAIN logs : ~PredecessorRival(lid))
             /\ Len(retr.ranked) <= cfg.evidence_budget_nmax)
               => PredecessorItems # {}
        /\ Cardinality(DOMAIN logs) = 2 => PredecessorItems # {}

\* S3: two records 50 seconds apart, the second severity-triggered; and a
\* three-record run in which the predecessor lost its place to an equal record.
C17_Witness ==
    /\ SeverityTriggeredAfterPredecessor
    /\ Cardinality(DOMAIN logs) = 2
    /\ logs[1].ts_sec = 1000
    /\ logs[2].ts_sec = 1050
    /\ \E it \in PredecessorItems : it.time_offset = <<0 - 50>> /\ it.paths = {"time"}

PackEntityValues ==
    {Pack.nodes[i].value : i \in {j \in DOMAIN Pack.nodes : Pack.nodes[j].type = "entity"}}

\* C20 as stated: no emitted record has a blacklisted value in entities_stat,
\* entities_stat_validated, entities_sem or entities_final, and no GraphPack
\* entity node has one, also when the semantic channel proposes the value.
C20_NoBlacklistedEntityEmitted ==
    /\ \A p \in Emitted :
          \A e \in Range(p.entities_stat) \cup Range(p.entities_stat_validated)
                     \cup Range(p.entities_sem) \cup Range(p.entities_final) :
             ~is_blacklisted_entity(e)
    /\ \A v \in PackEntityValues : ~is_blacklisted_entity(v)

\* What the code guarantees: every field but entities_sem, the graph and the
\* pack are free of blacklisted values.
C20_AllButSemClean ==
    /\ \A p \in Emitted :
          \A e \in Range(p.entities_stat) \cup Range(p.entities_stat_validated)
                     \cup Range(p.entities_final) :
             ~is_blacklisted_entity(e)
    /\ \A v \in PackEntityValues \cup DOMAIN entities : ~is_blacklisted_entity(v)

C20_Witness ==
    /\ cfg.enable_semantic_channel
    /\ \E p \in Emitted :
          /\ \E e \in Range(p.entities_sem) : is_blacklisted_entity(e)
          /\ p.entities_final = <<>>

(***************************************************************************)
(* Claims about the window boundary, edge pruning and the activity sweep.  *)
(* A step of the graph is a tick when last_op' names it.                   *)
(***************************************************************************)
\* The resident logs whose age at tick(now) is exactly the window.
AtWindowEdge(now) ==
    {l \in DOMAIN logs : logs[l].ts_sec = now - cfg.graph_window_t_sec}

\* C21 as stated: a log whose age is exactly T is resident after tick(now) and,
\* with decay_lambda unset, has the entity set it had before the tick.
C21_EdgeLogKeepsIncidences_Original ==
    [][last_op'.op = "tick" =>
          \A l \in AtWindowEdge(last_op'.now) :
             /\ l \in DOMAIN logs'
             /\ cfg.decay_lambda = <<>> => log_to_entities'[l] = log_to_entities[l]]_vars

\* The entities the activity sweep of a tick deletes (lines 194-199).
SweptNow ==
    IF cfg.activity_epsilon > 0 /\ step % SweepPeriod = 0
    THEN {e \in DOMAIN entities :
             entity_activity_now(cfg, GraphState, entities[e]) < cfg.activity_epsilon}
    ELSE {}

\* C21: a log whose age is exactly T (or less) is resident after tick(now) and,
\* with decay_lambda unset, keeps every entity incidence except those of the
\* entities that the activity sweep of that tick deletes; so a target and such
\* a prior log that share a non-hub entity e are structural candidates of each
\* other with e among the shared entities, and when they are the only two
\* resident logs the evidence of the target is the prior log with 'struct' in
\* paths and e in shared_entities.
C21_EdgeLogKeepsIncidences ==
    [][last_op'.op = "tick" =>
          \A l \in DOMAIN logs :
             logs[l].ts_sec >= last_op'.now - cfg.graph_window_t_sec =>
                /\ l \in DOMAIN logs'
                /\ cfg.decay_lambda = <<>> =>
                      /\ log_to_entities'[l] = log_to_entities[l] \ SweptNow
                      /\ \A t \in DOMAIN logs' :
                            \A e \in log_to_entities'[l] \cap log_to_entities'[t] :
                               (t # l /\ entity_degree(GraphState', e)
                                           <= cfg.degree_threshold_dmax) =>
                                  /\ l \in DOMAIN cand_dist_struct(cfg, GraphState', t)
                                  /\ e \in shared_entities(cfg, GraphState', t, l)
                                  /\ DOMAIN logs' = {l, t} =>
                                        LET ev == dual_path_retrieve(cfg, GraphState', t,
                                                                     <<l>>).evidence
                                        IN /\ Len(ev) = 1
                                           /\ ev[1].log_id = l
                                           /\ "struct" \in ev[1].paths
                                           /\ e \in Range(ev[1].shared_entities)]_vars

\* A tick at the time of the newest log left it with exactly one other log,
\* whose age is exactly the window and which shares an entity with it.
C21_Witness ==
    /\ last_op.op = "tick"
    /\ cfg.graph_window_t_sec > 0
    /\ cfg.decay_lambda = <<>>
    /\ \E l, t \in DOMAIN logs :
          /\ DOMAIN logs = {l, t}
          /\ l # t
          /\ logs[t].ts_sec = last_op.now
          /\ logs[l].ts_sec = last_op.now - cfg.graph_window_t_sec
          /\ log_to_entities[l] \cap log_to_entities[t] # {}
          /\ "struct" \in dual_path_retrieve(cfg, GraphState, t, <<l>>).evidence[1].paths

(***************************************************************************)
(* Claims about mask_for_template_key.                                     *)
(***************************************************************************)
\* C22 as stated: mask_for_template_key(mask_for_template_key(m)) =
\* mask_for_template_key(m) for every message m: the second call returns its
\* argument, which is the result of the first.
C22_MaskIdempotent ==
    (call.fn = "mask_for_template_key" /\ call.n = 2) => call.result[1] = call.arg

\* What the code does: the second call lowercases the placeholders of the first
\* (<NUM> becomes <num>, <HEX> becomes <hex>) and changes nothing else.
C22_SecondMaskLowercases ==
    (call.fn = "mask_for_template_key" /\ call.n = 2) => call.result[1] = Lower(call.arg)

\* A message with a decimal number and one with a hex literal, masked twice.
C22_Witness ==
    /\ call.fn = "mask_for_template_key"
    /\ call.n = 2
    /\ call.arg \in {<<"<","N","U","M",">">>, <<"<","H","E","X",">">>}
    /\ call.result[1] # call.arg

(***************************************************************************)
(* Claims about the output records of RecallPipeline.process.              *)
(***************************************************************************)
\* C23: every output record has the retrieval and prompt_len fields exactly
\* when triggered is true; a record that is not triggered has prediction
\* label NORMAL, confidence 0 and no evidence_ids; in a triggered record
\* evidence_count is the length of evidence_log_ids and at most n_max.
C23_OutputFields ==
    \A i \in DOMAIN pl.preds :
       LET out == pl.preds[i] IN
       /\ out.retrieval # <<>> <=> out.triggered
       /\ out.prompt_len # <<>> <=> out.triggered
       /\ out.triggered <=> out.trigger_by # "none"
       /\ ~out.triggered =>
             /\ out.prediction.label = "NORMAL"
             /\ out.prediction.confidence = 0
             /\ out.prediction.evidence_ids = <<>>
       /\ out.triggered =>
             /\ out.retrieval[1].evidence_count = Len(out.retrieval[1].evidence_log_ids)
             /\ out.retrieval[1].evidence_count <= cfg.evidence_budget_nmax
             /\ (i = Len(pl.preds) /\ retr.target = out.log_id) =>
                   out.retrieval[1].evidence_log_ids =
                       [j \in DOMAIN retr.evidence |-> retr.evidence[j].log_id]

\* With n_max = 1: a record that is not triggered, then a triggered record
\* with two ranked candidates of which one is reported.
C23_Witness ==
    /\ Len(pl.preds) = 3
    /\ ~pl.preds[1].triggered
    /\ pl.preds[3].triggered
    /\ retr.target = pl.preds[3].log_id
    /\ Len(retr.ranked) = 2
    /\ pl.preds[3].retrieval[1].evidence_count = 1
    /\ cfg.evidence_budget_nmax = 1

(***************************************************************************)
(* Claims about a target that is not resident.                             *)
(***************************************************************************)
AbsentEntities == {<<"a">>, <<"b">>, <<"z">>} \ DOMAIN entities

\* C24: for a target_log_id that is not resident, build_evidence_pack and
\* build_prompt raise and the graph is unchanged, while the lookups (get_log,
\* get_entities_for_log, the edge weights, get_logs_for_entity and
\* entity_degree of an absent entity) and dual_path_retrieve return absent or
\* empty results.
C24_NonResidentTarget ==
    [][(retr'.target # None /\ retr'.target \notin DOMAIN logs') =>
          /\ retr'.evidence = <<>>
          /\ retr'.ranked = <<>>
          /\ Pack'.raised
          /\ build_prompt(GraphState', retr'.target, Pack').raised
          /\ Get(logs', retr'.target) = <<>>
          /\ get_entities_for_log(GraphState', retr'.target) = {}
          /\ \A e \in DOMAIN entities' :
                structural_edge_weight(cfg, GraphState', retr'.target, e, clock') = 0
          /\ \A l \in DOMAIN logs' :
                temporal_edge_weight(cfg, GraphState', l, retr'.target, clock') = 0
          /\ \A e \in AbsentEntities' :
                /\ get_logs_for_entity(GraphState', e) = <<>>
                /\ entity_degree(GraphState', e) = 0
          /\ UNCHANGED graph_vars]_vars

\* Retrieval was asked for an evicted log while other logs are resident, one
\* of them with an entity.
C24_Witness ==
    /\ retr.target # None
    /\ retr.target \notin DOMAIN logs
    /\ retr.target <= issued
    /\ DOMAIN logs # {}
    /\ DOMAIN entities # {}
    /\ Pack.raised
    /\ build_prompt(GraphState, retr.target, Pack).raised

(***************************************************************************)
(* Claims about edge pruning, eviction and the life of a log.              *)
(***************************************************************************)
\* The resident logs older than age_limit at time now.
OlderThanAgeLimit(now) ==
    {l \in DOMAIN logs : logs[l].ts_sec < now - age_limit(cfg)}

IncidencesWiped(l) ==
    /\ log_to_entities[l] = {}
    /\ \A e \in DOMAIN entity_to_logs : l \notin Range(entity_to_logs[e])

\* C25 as stated: after tick(now) with lambda > 0 and theta_w > 0, every
\* resident log with ts < now - age_limit has an empty entity set, is in no
\* entity's log list, has neither a prev nor a next link, and no resident log
\* points to it.
C25_OldLogDetached_Original ==
    (last_op.op = "tick" /\ cfg.theta_w > 0 /\ Lambda(cfg).num > 0) =>
        \A l \in OlderThanAgeLimit(last_op.now) :
            /\ IncidencesWiped(l)
            /\ logs[l].prev_log_id = None
            /\ logs[l].next_log_id = None
            /\ \A m \in DOMAIN logs : logs[m].prev_log_id # l /\ logs[m].next_log_id # l

\* C25 (amended): after tick(now) with lambda > 0, theta_w > 0 and
\* age_limit > 0, every resident log with ts < now - age_limit has an empty
\* entity set, is in no entity's log list, has no prev link and is no log's
\* next; the tick cuts its next link only if the successor is older than
\* age_limit too: a link to a successor that is not older than age_limit is
\* left as it was, in both directions.
C25_OldLogDetached ==
    [][(last_op'.op = "tick" /\ cfg.theta_w > 0 /\ Lambda(cfg).num > 0
            /\ age_limit(cfg) > 0) =>
          LET old == {l \in DOMAIN logs' :
                         logs'[l].ts_sec < last_op'.now - age_limit(cfg)} IN
          \A l \in old :
             /\ IncidencesWiped(l)'
             /\ logs'[l].prev_log_id = None
             /\ \A m \in DOMAIN logs' : logs'[m].next_log_id # l
             /\ IF logs[l].next_log_id # None /\ logs[l].next_log_id \notin old
                THEN /\ logs'[l].next_log_id = logs[l].next_log_id
                     /\ logs'[logs[l].next_log_id].prev_log_id = l
                ELSE /\ logs'[l].next_log_id = None
                     /\ \A m \in DOMAIN logs' : logs'[m].prev_log_id # l]_vars

\* A tick left two logs older than age_limit and a newer one: the first is
\* cut off on both sides, the second still leads to the newer log.
C25_Witness ==
    /\ last_op.op = "tick"
    /\ Lambda(cfg).num > 0
    /\ age_limit(cfg) > 0
    /\ Cardinality(OlderThanAgeLimit(last_op.now)) = 2
    /\ \E l \in OlderThanAgeLimit(last_op.now) :
          logs[l].next_log_id = None /\ logs[l].prev_log_id = None
    /\ \E l \in OlderThanAgeLimit(last_op.now) :
          /\ logs[l].next_log_id # None
          /\ logs[l].next_log_id \notin OlderThanAgeLimit(last_op.now)

\* The logs that window eviction removes at time now.
OutsideWindow(now) ==
    {l \in DOMAIN logs : cfg.graph_window_t_sec > 0
                         /\ logs[l].ts_sec < now - cfg.graph_window_t_sec}

\* Only the logs outside the window leave, add_log removes none and tick adds
\* none; a log that stays keeps its id, timestamp, message and severity.
LogsLeaveOnlyByEviction ==
    /\ last_op'.op = "add_log" => DOMAIN logs' = DOMAIN logs \cup {issued'}
    /\ last_op'.op = "tick" =>
          /\ DOMAIN logs' = DOMAIN logs \ OutsideWindow(last_op'.now)
          /\ \A l \in DOMAIN logs' :
                /\ logs'[l].ts_sec = logs[l].ts_sec
                /\ logs'[l].message = logs[l].message
                /\ logs'[l].severity = logs[l].severity
                /\ log_to_entities'[l] \subseteq log_to_entities[l]

\* C26 as stated: edge pruning removes no log, and a log whose incidences were
\* wiped stays resident and linked in the prev/next chain until window
\* eviction removes it: a tick leaves the link between two logs that both stay
\* resident as it was; logs leave only through eviction and tick adds none.
C26_PrunedLogStaysLinked_Original ==
    [][/\ LogsLeaveOnlyByEviction
       /\ last_op'.op = "tick" =>
             \A l \in DOMAIN logs' :
                (logs[l].prev_log_id \in DOMAIN logs') =>
                    /\ logs'[l].prev_log_id = logs[l].prev_log_id
                    /\ logs'[logs[l].prev_log_id].next_log_id = l]_vars

\* C26 (amended): edge pruning removes no log: a log whose incidences were
\* wiped stays resident, with its timestamp, message and severity, until
\* window eviction removes it, and keeps the link to its successor when that
\* one is not older than age_limit; the link to its predecessor is cut.  The
\* link between two logs that stay resident is left as it was exactly when
\* the later one is not older than age_limit (or pruning is off).  Logs leave
\* only through eviction and tick adds none.
C26_PrunedLogStaysResident ==
    [][/\ LogsLeaveOnlyByEviction
       /\ last_op'.op = "tick" =>
             LET pruning == cfg.theta_w > 0 /\ Lambda(cfg).num > 0 /\ age_limit(cfg) > 0
                 old == {l \in DOMAIN logs' :
                            pruning /\ logs'[l].ts_sec < last_op'.now - age_limit(cfg)}
             IN \A l \in DOMAIN logs' :
                   /\ l \in old => log_to_entities'[l] = {} /\ logs'[l].prev_log_id = None
                   /\ (l \notin old /\ logs[l].prev_log_id \in DOMAIN logs') =>
                         /\ logs'[l].prev_log_id = logs[l].prev_log_id
                         /\ logs'[logs[l].prev_log_id].next_log_id = l]_vars

\* A tick wiped the incidences of a log and cut it from its predecessor; both
\* stay resident, and a newer log is still linked to it.
C26_Witness ==
    /\ last_op.op = "tick"
    /\ last_op.dropped # {}
    /\ last_op.evicted = {}
    /\ step % SweepPeriod # 0
    /\ \E l, m \in OlderThanAgeLimit(last_op.now) :
          /\ l < m
          /\ logs[m].prev_log_id = None
          /\ logs[l].next_log_id = None
          /\ logs[m].next_log_id \in DOMAIN logs

(***************************************************************************)
(* Claims about the activity sweep and entity activation.                  *)
(***************************************************************************)
\* The logs whose incidences edge pruning wipes at time now.
PrunedAt(now) ==
    {l \in DOMAIN logs : /\ cfg.theta_w > 0 /\ Lambda(cfg).num > 0 /\ age_limit(cfg) > 0
                         /\ logs[l].ts_sec < now - age_limit(cfg)}

\* The entities that still have an incident log after eviction and edge
\* pruning at time now.
StillReferenced(now) ==
    {e \in DOMAIN entities :
        \E l \in Range(entity_to_logs[e]) : l \notin OutsideWindow(now) \cup PrunedAt(now)}

\* The entities whose decayed activity, activity * beta^(step - last_step), is
\* below epsilon.
LowActivity ==
    {e \in DOMAIN entities :
        MulMilli(entities[e].activity,
                 PowMilli(cfg.activity_beta, step - entities[e].last_step))
            < cfg.activity_epsilon}

\* C27: the activity sweep runs only in a tick where step is a multiple of 256
\* and epsilon > 0; it removes exactly the entities whose decayed activity is
\* below epsilon, from entities, from entity_to_logs and from the entity set
\* of every log; in any other tick every entity that still has an incident
\* log after eviction and edge pruning is kept.
C27_SweepOnlyAtPeriod ==
    [][last_op'.op = "tick" =>
          LET now == last_op'.now
              sweeping == cfg.activity_epsilon > 0 /\ step % 256 = 0
              swept == IF sweeping THEN StillReferenced(now) \cap LowActivity ELSE {}
          IN /\ DOMAIN entities' = StillReferenced(now) \ swept
             /\ DOMAIN entity_to_logs' = StillReferenced(now) \ swept
             /\ \A e \in DOMAIN entities' :
                   /\ entities'[e] = entities[e]
                   /\ entity_to_logs'[e] =
                         SelectSeq(entity_to_logs[e],
                                   LAMBDA l : l \notin OutsideWindow(now) \cup PrunedAt(now))
             /\ \A l \in DOMAIN logs' :
                   log_to_entities'[l] =
                       IF l \in PrunedAt(now) THEN {} ELSE log_to_entities[l] \ swept]_vars

\* A tick at step 256 swept one entity off a resident log and kept another.
C27_Witness ==
    /\ last_op.op = "tick"
    /\ step = SweepPeriod
    /\ last_op.evicted = {}
    /\ last_op.dropped # {}
    /\ PrunedAt(last_op.now) = {}
    /\ entities # <<>>
    /\ \E l \in DOMAIN logs : log_to_entities[l] = {}

\* C28: add_log increments step by exactly one and tick leaves it; add_log
\* activates exactly the non-blacklisted entities of the new log: activity =
\* old activity * beta^(step - old last_step) + alpha (alpha for a new
\* entity), last_step = step, last_seen_ts = ts; every other entity keeps its
\* activity, last_step and last_seen_ts; activity >= 0 and last_step <= step
\* in every state.
C28_AddLogActivates ==
    [][/\ last_op'.op = "tick" => step' = step
       /\ last_op'.op = "add_log" =>
             LET ents == log_to_entities'[issued'] IN
             /\ step' = step + 1
             /\ DOMAIN entities' = DOMAIN entities \cup ents
             /\ \A e \in ents :
                   /\ ~is_blacklisted_entity(e)
                   /\ entities'[e].activity =
                         (IF e \in DOMAIN entities
                          THEN MulMilli(entities[e].activity,
                                        PowMilli(cfg.activity_beta,
                                                 step' - entities[e].last_step))
                          ELSE 0) + cfg.activity_alpha
                   /\ entities'[e].last_step = step'
                   /\ entities'[e].last_seen_ts = last_op'.now
             /\ \A e \in (DOMAIN entities) \ ents : entities'[e] = entities[e]
       /\ \A e \in DOMAIN entities' :
             entities'[e].activity >= 0 /\ entities'[e].last_step <= step']_vars

\* An entity seen two arrivals earlier was activated again, next to one that
\* was not touched: its activity is 1000 * 0.99^2 + 1000 thousandths.
C28_Witness ==
    /\ last_op.op = "add_log"
    /\ cfg.activity_beta = 990
    /\ \E e \in DOMAIN entities :
          /\ entities[e].last_step = step
          /\ entities[e].activity = 1980
    /\ \E e \in DOMAIN entities : entities[e].last_step = step - 1

(***************************************************************************)
(* Claims about the entity-to-logs incidence.                              *)
(***************************************************************************)
ResidentLogsWith(e) == {l \in DOMAIN logs : e \in log_to_entities[l]}

\* C29: for every entity, get_logs_for_entity returns the resident logs whose
\* entity set contains it, in arrival order, each once, and entity_degree is
\* their number; this holds after eviction, edge pruning and the sweep.
C29_EntityLogsOrdered ==
    \A e \in StoredEntities \cup {<<"a">>, <<"b">>, <<"z">>} :
        LET ls == get_logs_for_entity(GraphState, e) IN
        /\ Range(ls) = ResidentLogsWith(e)
        /\ \A i, j \in DOMAIN ls : i < j => ls[i] < ls[j]
        /\ ls = Ascending(ResidentLogsWith(e))
        /\ entity_degree(GraphState, e) = Cardinality(ResidentLogsWith(e))

\* A tick evicted a log, and an entity is still referenced by the two logs
\* that arrived after it.
C29_Witness ==
    /\ last_op.op = "tick"
    /\ last_op.evicted # {}
    /\ \E e \in DOMAIN entity_to_logs :
          /\ entity_to_logs[e] = <<2, 3>>
          /\ entity_degree(GraphState, e) = 2

(***************************************************************************)
(* Claims about TriggerEngine.check.                                       *)
(***************************************************************************)
HasTriggerKeyword(message) ==
    \E kw \in trigger_keywords : Contains(Lower(message), kw)

\* C30: check returns by = severity whenever the severity trigger is enabled
\* and the lowercased message contains a trigger keyword, whatever the burst
\* state; by = burst only when that is not so, the burst trigger is enabled
\* and the detector fired on the masked message; otherwise by = none;
\* triggered is true exactly when by is not none.
C30_TriggerOrder ==
    [][(call'.fn = "check" /\ call'.n = call.n + 1) =>
          LET r == call'.result[1]
              sev == cfg.enable_severity_trigger /\ HasTriggerKeyword(call'.arg.message)
              fired == push_and_check(bd_params,
                           [q |-> bd_q, win_counts |-> bd_win_counts, ema |-> bd_ema],
                           call'.arg.ts_sec,
                           mask_for_template_key(call'.arg.message)).fired
          IN /\ sev => r.by = "severity"
             /\ r.by = "burst" <=> (~sev /\ cfg.enable_burst_trigger /\ fired)
             /\ r.by \in {"severity", "burst", "none"}
             /\ r.by = "severity" => sev
             /\ r.triggered <=> r.by # "none"]_vars

\* Both triggers enabled: after two messages without keyword, the second of
\* which fired the burst trigger, a message with an upper-case keyword gives
\* by = severity and leaves the detector as it was.
C30_Witness ==
    /\ call.fn = "check"
    /\ call.n = 3
    /\ cfg.enable_severity_trigger
    /\ cfg.enable_burst_trigger
    /\ call.result[1].by = "severity"
    /\ call.arg.message[1] = "F"
    /\ bd_out.calls = 2
    /\ bd_out.fired
    /\ Len(bd_q) = 2

(***************************************************************************)
(* Claims about the distance of an evidence item.                          *)
(***************************************************************************)
\* The least number of prev or next hops, at most k, that lead from the target
\* to lid.
HopsTo(target, lid, k) ==
    CHOOSE n \in 1..k :
        /\ Hop(target, n, TRUE) = lid \/ Hop(target, n, FALSE) = lid
        /\ \A m \in 1..(n - 1) : Hop(target, m, TRUE) # lid /\ Hop(target, m, FALSE) # lid

\* C31: the dist of every item is the number of chain hops (1..temporal_k) if
\* it is a temporal candidate only, 2 if it is a structural candidate only, and
\* the smaller of the two if it is both; dist = 1 exactly for the prev and
\* next neighbours of the target.
C31_DistIsPathMinimum ==
    \A i \in DOMAIN retr.ranked :
        LET it == retr.ranked[i]
            near == WithinHops(retr.target, it.log_id, cfg.temporal_k)
            sh == SharedNonHub(retr.target, it.log_id) # {}
        IN /\ near \/ sh
           /\ it.dist = IF near /\ sh
                        THEN Min(HopsTo(retr.target, it.log_id, cfg.temporal_k), 2)
                        ELSE IF near THEN HopsTo(retr.target, it.log_id, cfg.temporal_k)
                        ELSE 2
           /\ it.dist = 1 <=>
                 /\ cfg.temporal_k >= 1
                 /\ it.log_id \in {logs[retr.target].prev_log_id,
                                   logs[retr.target].next_log_id}

\* The neighbour of the target shares an entity with it and has dist 1, the
\* minimum of one hop and the structural 2.
C31_Witness ==
    \E i \in DOMAIN retr.ranked :
        /\ retr.ranked[i].paths = {"struct", "time"}
        /\ retr.ranked[i].dist = 1
        /\ SharedNonHub(retr.target, retr.ranked[i].log_id) # {}

(***************************************************************************)
(* Claims about the statistical extractor.                                  *)
(***************************************************************************)
\* The calls of extract, up to call n, whose message has the token t.
CallsWith(t, n) == {i \in 1..n : t \in unique_tokens(rc_pushed[i].tokens)}

\* Those of them that are inside the window at call n: every one if delta_t_sec
\* <= 0, otherwise the ones not older than delta_t_sec seconds.
CallsInWindowWith(t, n) ==
    {i \in CallsWith(t, n) :
        cfg.delta_t_sec > 0 => rc_pushed[i].ts >= rc_pushed[n].ts - cfg.delta_t_sec}

\* t is the IPv4 part of an ip or ip:port token of call n.
BareIp(t, n) ==
    \E u \in Range(rc_pushed[n].tokens) :
        ipv4_port_match(u).matched /\ ipv4_port_match(u).ip = t

\* C32: a token returned by extract, other than the IPv4 part of an ip(:port)
\* token, has complexity above theta_tc and occurs in more than theta_rf calls
\* inside the window, the current call counted; with theta_rf = 2 it is
\* returned no earlier than the third such call, and a token with no more than
\* theta_rf occurrences left in the window is not returned, however often it
\* occurred before.
C32_StatThresholdsStrict ==
    call.fn = "extract" =>
        \A n \in 1..call.n :
            /\ \A t \in call.result[n] :
                  ~BareIp(t, n) =>
                     /\ t \in Range(rc_pushed[n].tokens)
                     /\ token_complexity(t) > cfg.theta_tc
                     /\ Cardinality(CallsInWindowWith(t, n)) > cfg.theta_rf
                     /\ cfg.theta_rf = 2 =>
                           /\ n >= 3
                           /\ Cardinality(CallsInWindowWith(t, n)) >= 3
            /\ \A t \in Range(rc_pushed[n].tokens) :
                  (Cardinality(CallsInWindowWith(t, n)) <= cfg.theta_rf /\ ~BareIp(t, n))
                     => t \notin call.result[n]

\* theta_rf = 2: a token is returned by the third call that has it, all three
\* in the window, and not by the fourth, when the first two have left it.
C32_Witness ==
    /\ call.fn = "extract"
    /\ call.n = 4
    /\ cfg.theta_rf = 2
    /\ \E t \in call.result[3] :
          /\ ~BareIp(t, 3)
          /\ t \notin call.result[1] \cup call.result[2]
          /\ CallsInWindowWith(t, 3) = {1, 2, 3}
          /\ CallsWith(t, 4) = {1, 2, 3, 4}
          /\ Cardinality(CallsInWindowWith(t, 4)) <= 2
          /\ t \notin call.result[4]

(***************************************************************************)
(* Claims about the summary of the graph pack.                              *)
(***************************************************************************)
\* The pack's summary has a temporal-proximity sentence for the evidence log.
HasProximitySentence(lid) ==
    \E j \in DOMAIN Pack.summary :
        /\ Pack.summary[j].kind = "within"
        /\ Pack.summary[j].log = id_map_logs(retr.target, retr.evidence, lid)

UnderSummaryCap == Len(summary_from(cfg, GraphState, retr.target, retr.evidence, 1)) <= SummaryCap

\* C33 as stated: while the summary is under its cap, it has a temporal-
\* proximity sentence for every evidence item within temporal_k prev or next
\* hops of the target, whatever the number of seconds between the two logs.
C33_ProximitySentenceWithinHops ==
    (retr.target \in DOMAIN logs /\ UnderSummaryCap) =>
        \A i \in DOMAIN retr.evidence :
            WithinHops(retr.target, retr.evidence[i].log_id, cfg.temporal_k)
                => HasProximitySentence(retr.evidence[i].log_id)

\* What build_evidence_pack does: the sentence is written exactly for the
\* items within temporal_k hops whose time offset, in seconds, is at most
\* temporal_k in absolute value.
C33_ProximitySentenceWithinSeconds ==
    (retr.target \in DOMAIN logs /\ UnderSummaryCap) =>
        \A i \in DOMAIN retr.evidence :
            LET it == retr.evidence[i]
                d == it.ts_sec - logs[retr.target].ts_sec
            IN HasProximitySentence(it.log_id)
                  <=> /\ WithinHops(retr.target, it.log_id, cfg.temporal_k)
                      /\ d <= cfg.temporal_k /\ 0 - d <= cfg.temporal_k

\* The predecessor of the target, one hop and 50 seconds away with temporal_k
\* = 15, is in the evidence and has no proximity sentence; an item at the same
\* second has one.
C33_Witness ==
    /\ retr.target \in DOMAIN logs
    /\ UnderSummaryCap
    /\ cfg.temporal_k = 15
    /\ \E i \in DOMAIN retr.evidence :
          /\ retr.evidence[i].log_id = logs[retr.target].prev_log_id
          /\ retr.evidence[i].time_offset = <<0 - 50>>
          /\ ~HasProximitySentence(retr.evidence[i].log_id)

(***************************************************************************)
(* Claims about the severity trigger and the burst detector.                *)
(***************************************************************************)
\* C34: a call of check that returns by = severity leaves the detector's
\* arrival queue, window counts and EMA state as they were, so a record with a
\* trigger keyword is not counted for any template.
C34_SeverityBypassesDetector ==
    [][(call'.fn = "check" /\ call'.n = call.n + 1 /\ call'.result[1].by = "severity")
          => /\ bd_q' = bd_q
             /\ bd_win_counts' = bd_win_counts
             /\ bd_ema' = bd_ema
             /\ bd_out' = bd_out
             /\ call'.result[1].template_key = <<>>]_vars

\* Both triggers enabled: three messages with a keyword and one template key,
\* each returned with by = severity, and the detector has seen no arrival.
C34_Witness ==
    /\ call.fn = "check"
    /\ call.n = 3
    /\ cfg.enable_severity_trigger
    /\ cfg.enable_burst_trigger
    /\ call.result[1].by = "severity"
    /\ HasTriggerKeyword(call.arg.message)
    /\ bd_q = <<>>
    /\ bd_win_counts = <<>>
    /\ bd_ema = <<>>
    /\ bd_out.calls = 0

(***************************************************************************)
(* Claims about the evidence list as a whole.                               *)
(***************************************************************************)
\* C35: a call of dual_path_retrieve for a resident target returns a list
\* without the target, without a repeated log_id and with resident logs only,
\* each item carrying the stored timestamp and message of its log, and leaves
\* the graph as it was.
C35_EvidenceSound ==
    [][(retr = NoRetrieval /\ retr' # NoRetrieval /\ retr'.target \in DOMAIN logs)
          => /\ UNCHANGED graph_vars
             /\ \A i \in DOMAIN retr'.ranked :
                   /\ retr'.ranked[i].log_id # retr'.target
                   /\ retr'.ranked[i].log_id \in DOMAIN logs
                   /\ retr'.ranked[i].ts_sec = logs[retr'.ranked[i].log_id].ts_sec
                   /\ retr'.ranked[i].message = logs[retr'.ranked[i].log_id].message
                   /\ \A j \in DOMAIN retr'.ranked :
                         retr'.ranked[i].log_id = retr'.ranked[j].log_id => i = j
             /\ \A i \in DOMAIN retr'.evidence :
                   \E j \in DOMAIN retr'.ranked : retr'.evidence[i] = retr'.ranked[j]
             /\ \A i, j \in DOMAIN retr'.evidence :
                   retr'.evidence[i].log_id = retr'.evidence[j].log_id => i = j]_vars

\* After an eviction, the target shares an entity with the other resident log,
\* which is also its chain neighbour: that log is returned once, the evicted
\* log and the target are not.
C35_Witness ==
    /\ retr.target \in DOMAIN logs
    /\ (1..issued) \ DOMAIN logs # {}
    /\ Len(retr.evidence) = 1
    /\ retr.evidence[1].paths = {"struct", "time"}
    /\ retr.evidence[1].log_id \in DOMAIN logs \ {retr.target}
    /\ get_entities_for_log(GraphState, retr.target) # {}

(***************************************************************************)
(* Claims about the consistency of the chain pointers.                      *)
(***************************************************************************)
\* C36: in every reachable state, for resident logs a and b, a.next_log_id = b
\* exactly when b.prev_log_id = a; every prev_log_id and next_log_id that is
\* not None names a resident log; last_log_id is None or a resident log.
C36_ChainPointersConsistent ==
    /\ \A a, b \in DOMAIN logs : logs[a].next_log_id = b <=> logs[b].prev_log_id = a
    /\ \A a \in DOMAIN logs :
          /\ logs[a].next_log_id # None => logs[a].next_log_id \in DOMAIN logs
          /\ logs[a].prev_log_id # None => logs[a].prev_log_id \in DOMAIN logs
          /\ logs[a].log_id = a
    /\ last_log_id = None \/ last_log_id \in DOMAIN logs

\* A tick has evicted the head of the chain: the two remaining logs are linked
\* to each other, the older one has no prev link and the newer one is
\* last_log_id.
C36_Witness ==
    /\ last_op.op = "tick"
    /\ last_op.evicted # {}
    /\ \E a, b \in DOMAIN logs :
          /\ logs[a].prev_log_id = None
          /\ logs[a].next_log_id = b
          /\ logs[b].prev_log_id = a
          /\ logs[b].next_log_id = None
          /\ last_log_id = b

(***************************************************************************)
(* Claims about the residency of the record being processed.                *)
(***************************************************************************)
\* C37: in process, the record just added is resident after add_log and
\* tick(rec.ts), whatever graph_window_t_sec is, so the run is never ended by
\* build_evidence_pack or build_prompt raising: a run is only ever ended by
\* an error of one of the two external calls.
C37_NewRecordResident ==
    [][(pl.status = "running" /\ issued' = issued + 1)
          => /\ issued' \in DOMAIN logs'
             /\ logs'[issued'].ts_sec = clock'
             /\ last_log_id' = issued'
             /\ issued' \notin last_op'.evicted
             /\ retr' # NoRetrieval =>
                   /\ retr'.target = issued'
                   /\ ~Pack'.raised
                   /\ ~build_prompt(GraphState', retr'.target, Pack').raised
             /\ pl'.status = "raised" => (pl'.sem = "io_error" \/ pl'.llm = "io_error")]_vars

\* A window of 1 second: the third record arrives 50 seconds after the first
\* two, which are evicted by its tick; it is resident, triggered, and its
\* prediction carries a prompt.
C37_Witness ==
    /\ cfg.graph_window_t_sec = 1
    /\ pl.status = "running"
    /\ issued = 3
    /\ last_op.evicted = {1, 2}
    /\ DOMAIN logs = {3}
    /\ Len(pl.preds) = 3
    /\ pl.preds[3].triggered
    /\ pl.preds[3].prompt_len # <<>>
    /\ ~Pack.raised

(***************************************************************************)
(* Claims about the burst trigger under the default parameters.             *)
(***************************************************************************)
\* The arrivals of key that are in the detector's queue and not older than the
\* burst window at time ts.
ArrivalsInWindow(key, ts) ==
    {i \in DOMAIN bd_q :
        bd_q[i].key = key /\ bd_q[i].ts >= ts - bd_params.burst_window_sec}

\* C38: with burst_ema_alpha = 0.01, burst_sigma = 3 and a window of 300 s, a
\* template key that was observed once before, that observation still being in
\* the window, fires the burst trigger on its second arrival: the window count
\* is 2, the mean becomes 1.01 and the variance 0.0099 (9 thousandths, rounded
\* down), and 2 exceeds mean + 3 * std.
C38_SecondArrivalFires ==
    [][(/\ call'.fn = "check" /\ call'.n = call.n + 1
        /\ call'.result[1].template_key # <<>>
        /\ call'.result[1].template_key[1] # <<>>
        /\ bd_params = DefaultBurstParams
        /\ LET key == call'.result[1].template_key[1]
           IN /\ Cardinality({i \in DOMAIN bd_q : bd_q[i].key = key}) = 1
              /\ Cardinality(ArrivalsInWindow(key, call'.arg.ts_sec)) = 1
              /\ key \in DOMAIN bd_ema
              /\ bd_ema[key] = [mean |-> 1000, var |-> 0, initialized |-> TRUE])
          => LET key == call'.result[1].template_key[1]
                 st == bd_ema'[key]
             IN /\ call'.result[1].triggered
                /\ call'.result[1].by = "burst"
                /\ bd_win_counts'[key] = 2
                /\ st.mean = 1010
                /\ st.var = 9
                /\ 2000 > st.mean + MulMilli(bd_params.sigma, SqrtMilli(st.var))]_vars

\* Two messages of one template, one second apart, neither with a keyword: the
\* second fired the burst trigger with window count 2, mean 1.01 and variance
\* 0.009.
C38_Witness ==
    /\ call.fn = "check"
    /\ call.n = 2
    /\ bd_params = DefaultBurstParams
    /\ call.result[1].by = "burst"
    /\ Len(bd_q) = 2
    /\ bd_q[1].key = bd_q[2].key
    /\ bd_q[1].ts = 0 /\ bd_q[2].ts = 1
    /\ bd_win_counts[bd_q[2].key] = 2
    /\ bd_ema[bd_q[2].key].mean = 1010
    /\ bd_ema[bd_q[2].key].var = 9

====
